---- MODULE Spec2Model ----
(***************************************************************************)
(* Chicago crime pipeline: the Field Normalizer (clean_raw_fields), the    *)
(* Feature Enricher (add_features, in its per-day and its bulk variant)    *)
(* and the per-day unit (process_single_zip).                              *)
(*                                                                         *)
(* A DataFrame is [columns |-> set of column names, rows |-> sequence of   *)
(* rows]; a row is a function from the column names to cells.  A cell is   *)
(* an option: <<>> is polars' null and <<v>> holds the value v.  Text is   *)
(* a TLA+ string handled character by character, so the cleaning regexes   *)
(* are computed and not assumed.  Float64 coordinates are fixed-point      *)
(* integers in units of 1e-5 degree.                                       *)
(***************************************************************************)
EXTENDS Integers, Sequences, FiniteSets, TLC

VARIABLES
    input,       \* the raw batch handed to the pipeline
    op,          \* the operation that has run on it: "none" before any
    result,      \* what the enrichment operation returned or raised
    normalized   \* the batch after 0, 1, 2, .. runs of the Field Normalizer

vars == <<input, op, result, normalized>>

(***************************************************************************)
(* Cells: polars null and Kleene logic                                     *)
(***************************************************************************)
Null == <<>>
Some(v) == <<v>>
IsNull(c) == c = <<>>
Val(c) == c[1]

\* a unary expression on a column: null in, null out
Map1(f(_), c) == IF IsNull(c) THEN Null ELSE Some(f(Val(c)))

\* ~expr
KNot(a) == IF IsNull(a) THEN Null ELSE Some(~Val(a))

\* a | b: true wins over null
KOr(a, b) ==
    IF (~IsNull(a) /\ Val(a)) \/ (~IsNull(b) /\ Val(b)) THEN Some(TRUE)
    ELSE IF IsNull(a) \/ IsNull(b) THEN Null
    ELSE Some(FALSE)

\* a & b: false wins over null
KAnd(a, b) ==
    IF (~IsNull(a) /\ ~Val(a)) \/ (~IsNull(b) /\ ~Val(b)) THEN Some(FALSE)
    ELSE IF IsNull(a) \/ IsNull(b) THEN Null
    ELSE Some(TRUE)

\* pl.when(c): only a true condition takes the branch, null falls through
IsTrue(c) == ~IsNull(c) /\ Val(c)

\* expr.is_between(lo, hi), both ends closed
is_between(c, lo, hi) == IF IsNull(c) THEN Null ELSE Some(lo <= Val(c) /\ Val(c) <= hi)

\* expr.is_in(values): a null operand gives null
is_in(c, values) == IF IsNull(c) THEN Null ELSE Some(Val(c) \in values)

\* expr.cast(pl.Int32) of a boolean
BoolToInt(c) == IF IsNull(c) THEN Null ELSE Some(IF Val(c) THEN 1 ELSE 0)

(***************************************************************************)
(* Text                                                                    *)
(***************************************************************************)
DIGITS == "0123456789"
UPPER == "ABCDEFGHIJKLMNOPQRSTUVWXYZ"
LOWER == "abcdefghijklmnopqrstuvwxyz"

Char(s, i) == SubSeq(s, i, i)
CharsOf(s) == {Char(s, i) : i \in 1..Len(s)}
IndexIn(s, c) == CHOOSE i \in 1..Len(s) : Char(s, i) = c

DigitChars == CharsOf(DIGITS)
AlnumChars == CharsOf(DIGITS) \cup CharsOf(UPPER) \cup CharsOf(LOWER)
\* \w of the regex engine
WordChars == AlnumChars \cup {"_"}
\* \s of the regex engine
SpaceChars == {" ", "\t"}

RECURSIVE KeepChars(_, _)
\* str.replace_all(r'[^<keep>]', ''): drop every character outside keep
KeepChars(s, keep) ==
    IF s = "" THEN ""
    ELSE (IF Head(s) \in keep THEN Head(s) ELSE "") \o KeepChars(Tail(s), keep)

LowerChar(c) == IF c \in CharsOf(UPPER) THEN Char(LOWER, IndexIn(UPPER, c)) ELSE c
UpperChar(c) == IF c \in CharsOf(LOWER) THEN Char(UPPER, IndexIn(LOWER, c)) ELSE c

RECURSIVE to_lowercase(_)
to_lowercase(s) == IF s = "" THEN "" ELSE LowerChar(Head(s)) \o to_lowercase(Tail(s))

RECURSIVE to_uppercase(_)
to_uppercase(s) == IF s = "" THEN "" ELSE UpperChar(Head(s)) \o to_uppercase(Tail(s))

RECURSIVE StripStart(_)
StripStart(s) == IF s # "" /\ Head(s) \in SpaceChars THEN StripStart(Tail(s)) ELSE s

RECURSIVE StripEnd(_)
StripEnd(s) ==
    IF s # "" /\ Char(s, Len(s)) \in SpaceChars THEN StripEnd(SubSeq(s, 1, Len(s) - 1)) ELSE s

\* str.strip_chars(), and the same effect of replace_all(r'^\s+|\s+$', '')
strip_chars(s) == StripEnd(StripStart(s))

RECURSIVE SpacesToUnderscore(_)
\* str.replace_all(r"\s+", "_"): each maximal run of whitespace becomes one "_"
SpacesToUnderscore(s) ==
    IF s = "" THEN ""
    ELSE IF Head(s) \in SpaceChars THEN "_" \o SpacesToUnderscore(StripStart(s))
    ELSE Head(s) \o SpacesToUnderscore(Tail(s))

RECURSIVE Zeros(_)
Zeros(n) == IF n <= 0 THEN "" ELSE "0" \o Zeros(n - 1)

\* str.zfill(width): pad on the left with zeros, never truncate
zfill(s, width) == Zeros(width - Len(s)) \o s

RECURSIVE DigitsValue(_, _)
DigitsValue(s, acc) ==
    IF s = "" THEN acc ELSE DigitsValue(Tail(s), 10 * acc + (IndexIn(DIGITS, Head(s)) - 1))

\* the longest text the integer parser is given in this model
MaxDigits == 9

\* Utf8 -> integer with strict=False: an optional sign and decimal digits,
\* anything else (the empty text, a letter, a dot, a blank) is null
StrToInt(s) ==
    LET body == IF s # "" /\ Head(s) \in {"-", "+"} THEN Tail(s) ELSE s
        neg == s # "" /\ Head(s) = "-"
    IN  IF body = "" \/ Len(body) > MaxDigits \/ \E i \in 1..Len(body) : Char(body, i) \notin DigitChars
        THEN Null
        ELSE Some(IF neg THEN 0 - DigitsValue(body, 0) ELSE DigitsValue(body, 0))

RECURSIVE NatToStr(_)
NatToStr(n) ==
    IF n < 10 THEN Char(DIGITS, n + 1) ELSE NatToStr(n \div 10) \o Char(DIGITS, (n % 10) + 1)

\* integer -> Utf8
IntToStr(n) == IF n < 0 THEN "-" \o NatToStr(0 - n) ELSE NatToStr(n)

RECURSIVE DigitRun(_)
DigitRun(s) == IF s # "" /\ Head(s) \in DigitChars THEN Head(s) \o DigitRun(Tail(s)) ELSE ""

RECURSIVE extract_digits(_)
\* str.extract(r'(\d+)', 1): the first maximal run of digits, null without one
extract_digits(s) ==
    IF s = "" THEN Null
    ELSE IF Head(s) \in DigitChars THEN Some(DigitRun(s))
    ELSE extract_digits(Tail(s))

StartsWith(s, p) == Len(s) >= Len(p) /\ SubSeq(s, 1, Len(p)) = p
Drop(s, n) == SubSeq(s, n + 1, Len(s))

RECURSIVE ReplaceLiteral(_, _, _)
\* str.replace_all of a pattern without metacharacters
ReplaceLiteral(s, pat, rep) ==
    IF s = "" THEN ""
    ELSE IF StartsWith(s, pat) THEN rep \o ReplaceLiteral(Drop(s, Len(pat)), pat, rep)
    ELSE Head(s) \o ReplaceLiteral(Tail(s), pat, rep)

RECURSIVE ReplaceWordFrom(_, _, _, _)
\* str.replace_all(r"\b<word>\b", rep); prev is the character before s ("" at the start)
ReplaceWordFrom(s, prev, word, rep) ==
    IF s = "" THEN ""
    ELSE IF /\ StartsWith(s, word)
            /\ prev \notin WordChars
            /\ (Len(s) = Len(word) \/ Char(s, Len(word) + 1) \notin WordChars)
         THEN rep \o ReplaceWordFrom(Drop(s, Len(word)), Char(word, Len(word)), word, rep)
    ELSE Head(s) \o ReplaceWordFrom(Tail(s), Head(s), word, rep)

ReplaceWord(s, word, rep) == ReplaceWordFrom(s, "", word, rep)

RECURSIVE ReplaceCompass(_, _, _)
\* str.replace_all(r"\s<letter>\s\b", rep): blank, letter, blank, then a word character
ReplaceCompass(s, letter, rep) ==
    IF s = "" THEN ""
    ELSE IF /\ Len(s) >= 4
            /\ Char(s, 1) \in SpaceChars
            /\ Char(s, 2) = letter
            /\ Char(s, 3) \in SpaceChars
            /\ Char(s, 4) \in WordChars
         THEN rep \o ReplaceCompass(Drop(s, 3), letter, rep)
    ELSE Head(s) \o ReplaceCompass(Tail(s), letter, rep)

(***************************************************************************)
(* DataFrames                                                              *)
(***************************************************************************)
\* expr applied to a non-null cell, null passed through
Bind(f(_), c) == IF IsNull(c) THEN Null ELSE f(Val(c))

\* the function on the set names that maps c to cell(row, c)
Cells(row, names, cell(_, _)) == [c \in names |-> cell(row, c)]

\* the tuple of f(row) for the rows in order
MapRows(rows, f(_)) == [i \in DOMAIN rows |-> f(rows[i])] \o <<>>

\* df.with_columns(exprs): every expression reads the frame as it was before
\* the call; named(row, column) is the cell an expression gives
with_columns(df, names, named(_, _)) ==
    [columns |-> df.columns \cup names,
     rows |-> MapRows(df.rows, LAMBDA r : Cells(r, names, named) @@ r)]

\* df.select(names)
select(df, names) ==
    [columns |-> names,
     rows |-> MapRows(df.rows, LAMBDA r : Cells(r, names, LAMBDA q, c : q[c]))]

\* df.rename(mapping) where new(c) is the new name of column c
Renamed(df, new(_)) ==
    LET names == {new(c) : c \in df.columns}
    IN  [columns |-> names,
         rows |-> MapRows(df.rows,
                     LAMBDA r : Cells(r, names,
                                   LAMBDA q, c : q[CHOOSE o \in df.columns : new(o) = c]))]

(***************************************************************************)
(* Field Normalizer: clean_raw_fields                                      *)
(***************************************************************************)
IntText(s, width) == Bind(LAMBDA n : Some(zfill(IntToStr(n), width)), StrToInt(s))

\* beat: drop punctuation, lowercase, integer, text, zfill(4)
beat_clean(c) ==
    Bind(LAMBDA s : IntText(to_lowercase(KeepChars(s, AlnumChars)), 4), c)

\* district: digits only, integer, text, zfill(3)
district_clean(c) == Bind(LAMBDA s : IntText(KeepChars(s, DigitChars), 3), c)

\* community_area: digits only, integer, text, zfill(3)
ca_clean(c) == Bind(LAMBDA s : IntText(KeepChars(s, DigitChars), 3), c)

\* ward: first run of digits, Int32, text, zfill(3)
ward_clean(c) ==
    Bind(LAMBDA s : Bind(LAMBDA d : IntText(d, 3), extract_digits(s)), c)

\* primary_type: strip, drop punctuation, blanks to "_", lowercase
type_clean(c) ==
    Map1(LAMBDA s : to_lowercase(SpacesToUnderscore(
                       KeepChars(strip_chars(s), AlnumChars \cup SpaceChars))), c)

\* iucr: strip, drop special characters, zfill(4)
iucr_clean(c) == Map1(LAMBDA s : zfill(KeepChars(strip_chars(s), AlnumChars), 4), c)

\* description: strip, drop special characters, lowercase
description_clean(c) ==
    Map1(LAMBDA s : to_lowercase(KeepChars(strip_chars(s), AlnumChars \cup SpaceChars)), c)

\* fbi_code: strip, drop special characters, uppercase
fbi_code_clean(c) == Map1(LAMBDA s : to_uppercase(KeepChars(strip_chars(s), AlnumChars)), c)

\* case_number: strip, drop special characters
case_number_clean(c) == Map1(LAMBDA s : KeepChars(strip_chars(s), AlnumChars), c)

\* block: XX -> 00, street abbreviations spelled out, compass letters, uppercase
block_clean(c) ==
    Map1(LAMBDA s :
        LET s1 == ReplaceLiteral(strip_chars(s), "XX", "00")
            s2 == ReplaceWord(s1, "ST", "STREET")
            s3 == ReplaceWord(s2, "AVE", "AVENUE")
            s4 == ReplaceWord(s3, "BLVD", "BOULEVARD")
            s5 == ReplaceWord(s4, "DR", "DRIVE")
            s6 == ReplaceWord(s5, "LN", "LANE")
            s7 == ReplaceWord(s6, "CT", "COURT")
            s8 == ReplaceWord(s7, "PL", "PLACE")
            s9 == ReplaceCompass(s8, "N", "NORTH")
            s10 == ReplaceCompass(s9, "S", "SOUTH")
            s11 == ReplaceCompass(s10, "E", "EAST")
            s12 == ReplaceCompass(s11, "W", "WEST")
        IN  to_uppercase(s12), c)

\* location_description: strip, APT -> APARTMENT, the literal \RESIDENCE\b -> HOME, lowercase
location_clean(c) ==
    Map1(LAMBDA s :
        to_lowercase(ReplaceLiteral(ReplaceWord(strip_chars(s), "APT", "APARTMENT"),
                                    "\\RESIDENCE\\b", "HOME")), c)

\* the fields clean_raw_fields looks for, in the order it handles them
CleanFields ==
    <<"beat", "district", "community_area", "ward", "primary_type", "iucr",
      "description", "fbi_code", "case_number", "block", "location_description">>

RawName(f) == f \o "_raw"

\* the column the cleaned value of field f is written to
CleanAlias(f) == IF f = "beat" THEN "beat_clean" ELSE f

CleanValue(f, c) ==
    CASE f = "beat" -> beat_clean(c)
      [] f = "district" -> district_clean(c)
      [] f = "community_area" -> ca_clean(c)
      [] f = "ward" -> ward_clean(c)
      [] f = "primary_type" -> type_clean(c)
      [] f = "iucr" -> iucr_clean(c)
      [] f = "description" -> description_clean(c)
      [] f = "fbi_code" -> fbi_code_clean(c)
      [] f = "case_number" -> case_number_clean(c)
      [] f = "block" -> block_clean(c)
      [] f = "location_description" -> location_clean(c)

\* the aliases of the expressions clean_raw_fields collects for a frame
CleanExprNames(columns) ==
    LET present == {CleanFields[i] : i \in {j \in DOMAIN CleanFields : CleanFields[j] \in columns}}
    IN  {RawName(f) : f \in {g \in present : RawName(g) \notin columns}}
        \cup {CleanAlias(f) : f \in present}

CleanExpr(row, name) ==
    LET fs == {CleanFields[i] : i \in DOMAIN CleanFields}
    IN  IF \E f \in fs : CleanAlias(f) = name
        THEN LET f == CHOOSE g \in fs : CleanAlias(g) = name IN CleanValue(f, row[f])
        ELSE LET f == CHOOSE g \in fs : RawName(g) = name IN row[f]

clean_raw_fields(df) == with_columns(df, CleanExprNames(df.columns), CleanExpr)

(***************************************************************************)
(* Calendar                                                                *)
(***************************************************************************)
IsLeap(y) == (y % 4 = 0 /\ y % 100 # 0) \/ y % 400 = 0

DaysInMonth(y, m) ==
    IF m = 2 THEN (IF IsLeap(y) THEN 29 ELSE 28)
    ELSE IF m \in {4, 6, 9, 11} THEN 30 ELSE 31

RECURSIVE DaysBeforeMonth(_, _)
DaysBeforeMonth(y, m) == IF m = 1 THEN 0 ELSE DaysBeforeMonth(y, m - 1) + DaysInMonth(y, m - 1)

\* days from 0001-01-01 (day 1) in the proleptic Gregorian calendar: date.toordinal()
ToOrdinal(y, m, d) ==
    LET p == y - 1
    IN  365 * p + (p \div 4) - (p \div 100) + (p \div 400) + DaysBeforeMonth(y, m) + d

\* dt.weekday(): ISO, Monday = 1 .. Sunday = 7
Weekday(y, m, d) == ((ToOrdinal(y, m, d) + 6) % 7) + 1

WeeksInYear(y) ==
    IF Weekday(y, 1, 1) = 4 \/ (IsLeap(y) /\ Weekday(y, 1, 1) = 3) THEN 53 ELSE 52

\* dt.week(): ISO week of the year
IsoWeek(y, m, d) ==
    LET doy == DaysBeforeMonth(y, m) + d
        w == (doy - Weekday(y, m, d) + 10) \div 7
    IN  IF w < 1 THEN WeeksInYear(y - 1)
        ELSE IF w > WeeksInYear(y) THEN 1
        ELSE w

AllDigits(s) == \A i \in 1..Len(s) : Char(s, i) \in DigitChars
Num(s, from, to) == DigitsValue(SubSeq(s, from, to), 0)

ValidClock(y, m, d, hh, mi, ss) ==
    /\ m \in 1..12
    /\ d >= 1 /\ d <= DaysInMonth(y, m)
    /\ hh \in 0..23 /\ mi \in 0..59 /\ ss \in 0..59

Stamp(y, m, d, hh, mi, ss) ==
    IF ValidClock(y, m, d, hh, mi, ss)
    THEN Some([year |-> y, month |-> m, day |-> d, hour |-> hh, minute |-> mi, second |-> ss])
    ELSE Null

\* str.strptime(pl.Datetime, "%Y-%m-%dT%H:%M:%S%.f", strict=False):
\* the fixed layout with an optional fraction, anything else is null
StrptimeIso(s) ==
    LET frac == Drop(s, 19)
    IN  IF /\ Len(s) >= 19
           /\ AllDigits(SubSeq(s, 1, 4)) /\ Char(s, 5) = "-"
           /\ AllDigits(SubSeq(s, 6, 7)) /\ Char(s, 8) = "-"
           /\ AllDigits(SubSeq(s, 9, 10)) /\ Char(s, 11) = "T"
           /\ AllDigits(SubSeq(s, 12, 13)) /\ Char(s, 14) = ":"
           /\ AllDigits(SubSeq(s, 15, 16)) /\ Char(s, 17) = ":"
           /\ AllDigits(SubSeq(s, 18, 19))
           /\ (frac = "" \/ (Head(frac) = "." /\ Len(frac) \in 2..10 /\ AllDigits(Tail(frac))))
        THEN Stamp(Num(s, 1, 4), Num(s, 6, 7), Num(s, 9, 10),
                   Num(s, 12, 13), Num(s, 15, 16), Num(s, 18, 19))
        ELSE Null

\* str.strptime(pl.Datetime, "%m/%d/%Y %I:%M:%S %p", strict=False)
StrptimeUs(s) ==
    IF /\ Len(s) = 22
       /\ AllDigits(SubSeq(s, 1, 2)) /\ Char(s, 3) = "/"
       /\ AllDigits(SubSeq(s, 4, 5)) /\ Char(s, 6) = "/"
       /\ AllDigits(SubSeq(s, 7, 10)) /\ Char(s, 11) = " "
       /\ AllDigits(SubSeq(s, 12, 13)) /\ Char(s, 14) = ":"
       /\ AllDigits(SubSeq(s, 15, 16)) /\ Char(s, 17) = ":"
       /\ AllDigits(SubSeq(s, 18, 19)) /\ Char(s, 20) = " "
       /\ SubSeq(s, 21, 22) \in {"AM", "PM"}
       /\ Num(s, 12, 13) \in 1..12
    THEN Stamp(Num(s, 7, 10), Num(s, 1, 2), Num(s, 4, 5),
               (Num(s, 12, 13) % 12) + (IF SubSeq(s, 21, 22) = "PM" THEN 12 ELSE 0),
               Num(s, 15, 16), Num(s, 18, 19))
    ELSE Null

\* the n-th given weekday of a month, as its day of the month
NthWeekday(y, m, n, wd) == 1 + ((wd - Weekday(y, m, 1) + 7) % 7) + 7 * (n - 1)

LastWeekday(y, m, wd) ==
    LET d4 == NthWeekday(y, m, 4, wd)
    IN  IF d4 + 7 <= DaysInMonth(y, m) THEN d4 + 7 ELSE d4

\* the fixed-date federal holidays of year y, as <<month, day>>
FixedHolidays(y) ==
    {<<1, 1>>, <<7, 4>>, <<11, 11>>, <<12, 25>>} \cup (IF y >= 2021 THEN {<<6, 19>>} ELSE {})

\* holidays.US(years={y}): is month m, day d of year y in the calendar
\* (a holiday, or the Friday / Monday on which a weekend holiday is observed)
InUsHolidays(y, m, d) ==
    LET o == ToOrdinal(y, m, d)
        observed(hy, h) ==
            LET wd == Weekday(hy, h[1], h[2])
                ho == ToOrdinal(hy, h[1], h[2])
            IN  (wd = 6 /\ o = ho - 1) \/ (wd = 7 /\ o = ho + 1)
    IN  \/ <<m, d>> \in FixedHolidays(y)
        \/ \E h \in FixedHolidays(y) : observed(y, h)
        \/ (m = 12 /\ d = 31 /\ Weekday(y + 1, 1, 1) = 6)
        \/ (m = 1 /\ d = NthWeekday(y, 1, 3, 1))
        \/ (m = 2 /\ d = NthWeekday(y, 2, 3, 1))
        \/ (m = 5 /\ d = LastWeekday(y, 5, 1))
        \/ (m = 9 /\ d = NthWeekday(y, 9, 1, 1))
        \/ (m = 10 /\ d = NthWeekday(y, 10, 2, 1))
        \/ (m = 11 /\ d = NthWeekday(y, 11, 4, 4))

(***************************************************************************)
(* Feature Enricher: the expressions of add_features, block by block       *)
(***************************************************************************)
Lt(c, n) == IF IsNull(c) THEN Null ELSE Some(Val(c) < n)
Ge(c, n) == IF IsNull(c) THEN Null ELSE Some(Val(c) >= n)

\* year .. is_weekday, from the parsed timestamp
TemporalExpr(date, name) ==
    LET wd == Map1(LAMBDA t : Weekday(t.year, t.month, t.day), date)
    IN  CASE name = "year" -> Map1(LAMBDA t : t.year, date)
          [] name = "quarter" -> Map1(LAMBDA t : ((t.month - 1) \div 3) + 1, date)
          [] name = "month" -> Map1(LAMBDA t : t.month, date)
          [] name = "day" -> Map1(LAMBDA t : t.day, date)
          [] name = "hour" -> Map1(LAMBDA t : t.hour, date)
          [] name = "day_of_week_num" -> wd
          [] name = "week_of_year" -> Map1(LAMBDA t : IsoWeek(t.year, t.month, t.day), date)
          [] name = "is_weekend" -> Ge(wd, 5)
          [] name = "is_weekday" -> Lt(wd, 5)

TemporalNames ==
    {"year", "quarter", "month", "day", "hour", "day_of_week_num", "week_of_year",
     "is_weekend", "is_weekday"}

\* is_daytime .. part_of_day, from hour and is_weekday
DayPartExpr(hour, is_weekday, name) ==
    CASE name = "is_daytime" -> is_between(hour, 6, 18)
      [] name = "is_nighttime" -> KNot(is_between(hour, 6, 18))
      [] name = "is_am" -> is_between(hour, 0, 11)
      [] name = "is_pm" -> KNot(is_between(hour, 0, 11))
      [] name = "is_business_hours" -> is_between(hour, 9, 17)
      [] name = "is_off_business_hours" -> KNot(is_between(hour, 9, 17))
      [] name = "is_school_hours" -> KAnd(is_between(hour, 8, 15), is_weekday)
      [] name = "is_late_night" -> is_between(hour, 0, 5)
      [] name = "part_of_day" ->
            IF IsTrue(Lt(hour, 6)) THEN Some("Night")
            ELSE IF IsTrue(Lt(hour, 12)) THEN Some("Morning")
            ELSE IF IsTrue(Lt(hour, 18)) THEN Some("Afternoon")
            ELSE Some("Evening")

DayPartNames ==
    {"is_daytime", "is_nighttime", "is_am", "is_pm", "is_business_hours",
     "is_off_business_hours", "is_school_hours", "is_late_night", "part_of_day"}

SeasonExpr(month) ==
    IF IsTrue(is_in(month, {12, 1, 2})) THEN Some("Winter")
    ELSE IF IsTrue(is_in(month, {3, 4, 5})) THEN Some("Spring")
    ELSE IF IsTrue(is_in(month, {6, 7, 8})) THEN Some("Summer")
    ELSE IF IsTrue(is_in(month, {9, 10, 11})) THEN Some("Fall")
    ELSE Some("Unknown")

\* years = the distinct non-null years of the batch
BatchYears(df, yearCol) ==
    {Val(df.rows[i][yearCol]) : i \in {j \in DOMAIN df.rows : ~IsNull(df.rows[j][yearCol])}}

\* pl.col('date').dt.date().is_in(holiday_dates)
HolidayExpr(date, years) ==
    Map1(LAMBDA t : t.year \in years /\ InUsHolidays(t.year, t.month, t.day), date)

\* 90 and 180 degrees, and the reference point 41.8781, -87.6298, in 1e-5 degree
LatLimit == 9000000
LonLimit == 18000000
DowntownLat == 4187810
DowntownLon == -8762980

Abs(n) == IF n < 0 THEN 0 - n ELSE n

\* Float64.round(decimals) on 1e-5 degree fixed point: decimals = 4 or 2
Round(v, decimals) ==
    LET unit == IF decimals = 4 THEN 10 ELSE 1000
        q == (Abs(v) + (unit \div 2)) \div unit
    IN  IF v < 0 THEN 0 - (q * unit) ELSE q * unit

RECURSIVE StripZerosEnd(_)
StripZerosEnd(s) ==
    IF Len(s) > 1 /\ Char(s, Len(s)) = "0" THEN StripZerosEnd(SubSeq(s, 1, Len(s) - 1)) ELSE s

\* Float64 -> Utf8: 4187810 is "41.8781", 0 is "0.0"
FloatToStr(v) ==
    (IF v < 0 THEN "-" ELSE "") \o NatToStr(Abs(v) \div 100000) \o "."
        \o StripZerosEnd(zfill(NatToStr(Abs(v) % 100000), 5))

RECURSIVE IsqrtFrom(_, _, _)
IsqrtFrom(n, lo, hi) ==
    IF lo >= hi THEN lo
    ELSE LET mid == (lo + hi + 1) \div 2
         IN  IF mid * mid <= n THEN IsqrtFrom(n, mid, hi) ELSE IsqrtFrom(n, lo, mid - 1)

Isqrt(n) == IsqrtFrom(n, 0, 40000)

\* ((111*(lat - 41.8781))**2 + (85*(lon + 87.6298))**2) ** 0.5, in whole kilometres
DistanceKm(lat, lon) ==
    LET a == (111 * (Abs(lat - DowntownLat) \div 10)) \div 10000
        b == (85 * (Abs(lon - DowntownLon) \div 10)) \div 10000
    IN  Isqrt(a * a + b * b)

\* is_missing_lat .. lon_out_of_range
SpatialFlagExpr(row, name) ==
    CASE name = "is_missing_lat" -> Some(IsNull(row["latitude"]))
      [] name = "is_missing_lon" -> Some(IsNull(row["longitude"]))
      [] name = "lat_out_of_range" -> KNot(is_between(row["latitude"], 0 - LatLimit, LatLimit))
      [] name = "lon_out_of_range" -> KNot(is_between(row["longitude"], 0 - LonLimit, LonLimit))

SpatialFlagNames == {"is_missing_lat", "is_missing_lon", "lat_out_of_range", "lon_out_of_range"}

BadLocationExpr(row) ==
    KOr(KOr(KOr(row["is_missing_lat"], row["is_missing_lon"]), row["lat_out_of_range"]),
        row["lon_out_of_range"])

\* (latitude == 0) & (longitude == 0)
IsSentinel(row) ==
    KAnd(Map1(LAMBDA v : v = 0, row["latitude"]), Map1(LAMBDA v : v = 0, row["longitude"]))

\* pl.when(sentinel).then(None).otherwise(pl.col(name))
SentinelExpr(row, name) == IF IsTrue(IsSentinel(row)) THEN Null ELSE row[name]

\* lat_bin, lon_bin, geo_grid, distance_from_downtown_km
BinExpr(row, name, decimals) ==
    LET lat == row["latitude"]
        lon == row["longitude"]
    IN  CASE name = "lat_bin" -> Map1(LAMBDA v : Round(v, decimals), lat)
          [] name = "lon_bin" -> Map1(LAMBDA v : Round(v, decimals), lon)
          [] name = "geo_grid" ->
                IF IsNull(lat) \/ IsNull(lon) THEN Null
                ELSE Some(FloatToStr(Round(Val(lat), decimals)) \o "_"
                          \o FloatToStr(Round(Val(lon), decimals)))
          [] name = "distance_from_downtown_km" ->
                IF IsNull(lat) \/ IsNull(lon) THEN Null
                ELSE Some(DistanceKm(Val(lat), Val(lon)))

BinNames == {"lat_bin", "lon_bin", "geo_grid", "distance_from_downtown_km"}

\* pl.col('id').count().over(['lat_bin', 'lon_bin']): the non-null ids of the
\* row's group; rows with a null bin form a group of their own
DensityExpr(df, row) ==
    Some(Cardinality({j \in DOMAIN df.rows :
            /\ df.rows[j]["lat_bin"] = row["lat_bin"]
            /\ df.rows[j]["lon_bin"] = row["lon_bin"]
            /\ ~IsNull(df.rows[j]["id"])}))

violent_types == {"BATTERY", "ASSAULT", "HOMICIDE", "ROBBERY", "CRIM SEXUAL ASSAULT"}
property_types == {"BURGLARY", "THEFT", "MOTOR VEHICLE THEFT", "ARSON"}
drug_types == {"NARCOTICS", "OTHER NARCOTIC VIOLATION"}
public_order_types == {"PUBLIC PEACE VIOLATION", "INTERFERENCE WITH PUBLIC OFFICER"}
weapon_types ==
    {"WEAPONS VIOLATION", "UNLAWFUL USE OF WEAPON", "CONCEALED CARRY LICENSE VIOLATION"}

\* is_violent .. is_weapon_related, from the text label
TypeFlagExpr(primary_type, name) ==
    CASE name = "is_violent" -> is_in(primary_type, violent_types)
      [] name = "is_property" -> is_in(primary_type, property_types)
      [] name = "is_drug_related" -> is_in(primary_type, drug_types)
      [] name = "is_public_order" -> is_in(primary_type, public_order_types)
      [] name = "is_weapon_related" -> is_in(primary_type, weapon_types)

TypeFlagNames ==
    {"is_violent", "is_property", "is_drug_related", "is_public_order", "is_weapon_related"}

fbi_map ==
    ("01A" :> "Homicide") @@ ("01B" :> "Manslaughter") @@ ("02" :> "Sexual Assault")
    @@ ("03" :> "Robbery") @@ ("04A" :> "Aggravated Assault/Battery")
    @@ ("04B" :> "Simple Assault/Battery") @@ ("05" :> "Burglary") @@ ("06" :> "Theft")
    @@ ("07" :> "Motor Vehicle Theft") @@ ("08A" :> "Arson") @@ ("08B" :> "Criminal Damage")
    @@ ("09" :> "Fraud") @@ ("10" :> "Forgery/Counterfeiting") @@ ("11" :> "Embezzlement")
    @@ ("12" :> "Stolen Property") @@ ("13" :> "Vandalism") @@ ("14" :> "Weapons Violation")
    @@ ("15" :> "Prostitution") @@ ("16" :> "Sex Offense (Other)") @@ ("17" :> "Drug Violation")
    @@ ("18" :> "Gambling") @@ ("19" :> "Offense Against Family/Children")
    @@ ("20" :> "Driving Offenses") @@ ("21" :> "Liquor Law Violation")
    @@ ("22" :> "Public Order Crime") @@ ("24" :> "Disorderly Conduct")
    @@ ("26" :> "Miscellaneous Offense")

\* a severity table that ranks Theft, which the program's table leaves out
SeverityWithTheft ==
    ("Homicide" :> 5) @@ ("Manslaughter" :> 4) @@ ("Sexual Assault" :> 4) @@ ("Robbery" :> 4)
    @@ ("Aggravated Assault/Battery" :> 4) @@ ("Arson" :> 4) @@ ("Burglary" :> 3)
    @@ ("Theft" :> 2)

severity_map ==
    ("Homicide" :> 5) @@ ("Manslaughter" :> 4) @@ ("Sexual Assault" :> 4) @@ ("Robbery" :> 4)
    @@ ("Aggravated Assault/Battery" :> 4) @@ ("Arson" :> 4) @@ ("Burglary" :> 3)
    @@ ("Motor Vehicle Theft" :> 3) @@ ("Weapons Violation" :> 3) @@ ("Drug Violation" :> 2)
    @@ ("Fraud" :> 2) @@ ("Forgery/Counterfeiting" :> 2) @@ ("Disorderly Conduct" :> 1)
    @@ ("Vandalism" :> 1) @@ ("Public Order Crime" :> 1) @@ ("Miscellaneous Offense" :> 1)

severity_labels ==
    (5 :> "Critical") @@ (4 :> "High") @@ (3 :> "Moderate") @@ (2 :> "Low") @@ (1 :> "Minor")
    @@ (0 :> "Unknown")

\* a left join on the key column followed by fill_null(default); map_dict(map,
\* default=default) of the bulk variant gives the same cell
Lookup(map, key, default) ==
    IF ~IsNull(key) /\ Val(key) \in DOMAIN map THEN Some(map[Val(key)]) ELSE Some(default)

violent_fbi_codes == {"01A", "01B", "02", "03", "04A", "04B"}
property_fbi_codes == {"05", "06", "07", "08A", "08B", "09", "10", "11", "12", "13"}

\* is_violent_fbi, is_property_fbi
FbiFlagExpr(fbi_code, name) ==
    CASE name = "is_violent_fbi" -> is_in(fbi_code, violent_fbi_codes)
      [] name = "is_property_fbi" -> is_in(fbi_code, property_fbi_codes)

\* is_violent_combined, is_property_combined
CombinedExpr(row, name) ==
    CASE name = "is_violent_combined" -> KOr(row["is_violent"], row["is_violent_fbi"])
      [] name = "is_property_combined" -> KOr(row["is_property"], row["is_property_fbi"])

Add(a, b) == IF IsNull(a) \/ IsNull(b) THEN Null ELSE Some(Val(a) + Val(b))
Times(a, n) == IF IsNull(a) THEN Null ELSE Some(Val(a) * n)

\* violent*3 + property*2 + drug, on the Int32 casts of the flags
RiskScore(violent, property, drug) ==
    Add(Add(Times(BoolToInt(violent), 3), Times(BoolToInt(property), 2)), BoolToInt(drug))

\* (violent & nighttime) | (weapon & weekend)
HighRisk(violent, nighttime, weapon, weekend) ==
    KOr(KAnd(violent, nighttime), KAnd(weapon, weekend))

\* the chain with the property branch ahead of the violent one
CategoryPropertyFirst(violent, property, drug, weapon, public_order) ==
    IF IsTrue(property) THEN Some("Property Crime")
    ELSE IF IsTrue(violent) THEN Some("Violent Crime")
    ELSE IF IsTrue(drug) THEN Some("Drug Crime")
    ELSE IF IsTrue(weapon) THEN Some("Weapons Crime")
    ELSE IF IsTrue(public_order) THEN Some("Public Order Crime")
    ELSE Some("Other")

\* the when/then chain of crime_category
CrimeCategory(violent, property, drug, weapon, public_order) ==
    IF IsTrue(violent) THEN Some("Violent Crime")
    ELSE IF IsTrue(property) THEN Some("Property Crime")
    ELSE IF IsTrue(drug) THEN Some("Drug Crime")
    ELSE IF IsTrue(weapon) THEN Some("Weapons Crime")
    ELSE IF IsTrue(public_order) THEN Some("Public Order Crime")
    ELSE Some("Other")

\* text_lat_bin, text_lon_bin
TextBinExpr(row, name) ==
    CASE name = "text_lat_bin" -> Map1(FloatToStr, row["lat_bin"])
      [] name = "text_lon_bin" -> Map1(FloatToStr, row["lon_bin"])

(***************************************************************************)
(* add_features of the per-day pipeline (1_silver_data_enhance.py)         *)
(***************************************************************************)
SeqToSet(q) == {q[i] : i \in DOMAIN q}

\* df.rename({c: c.lower() for c in df.columns})
RenameLower(df) ==
    IF \A c \in df.columns : c = to_lowercase(c) THEN df ELSE Renamed(df, to_lowercase)

lower_required ==
    <<"latitude", "longitude", "beat", "district", "ward", "community_area",
      "primary_type", "fbi_code", "id", "date">>

\* the check stopping at the first required column it misses
FirstMissing(required, columns) ==
    LET missing == SelectSeq(required, LAMBDA c : c \notin columns)
    IN  IF missing = <<>> THEN <<>> ELSE <<missing[1]>>

\* missing = [col for col in lower_required if col not in df.columns]
MissingColumns(required, columns) == SelectSeq(required, LAMBDA c : c \notin columns)

\* ward_out_of_range, community_area_out_of_range
RangeExpr(row, name) ==
    CASE name = "ward_out_of_range" ->
            KNot(is_between(Bind(StrToInt, row["ward"]), 1, 50))
      [] name = "community_area_out_of_range" ->
            KNot(is_between(Bind(StrToInt, row["community_area"]), 1, 100))

TruthyTexts == {"true", "t", "1", "yes", "y"}

\* arrest, domestic: when(lowercase in truthy).then(True).otherwise(False)
BoolTextExpr(c) == Some(IsTrue(is_in(Map1(to_lowercase, c), TruthyTexts)))

\* primary_type, fbi_code: uppercase, then trim
CanonExpr(c) == Map1(LAMBDA s : strip_chars(to_uppercase(s)), c)

\* df.with_columns(pl.col("date").str.strptime(pl.Datetime, strict=False))
ParseDate(df) == with_columns(df, {"date"}, LAMBDA r, c : Bind(StrptimeIso, r["date"]))

RangeFlags(df) ==
    with_columns(df, {"ward_out_of_range", "community_area_out_of_range"}, RangeExpr)

BooleanFields(df) ==
    with_columns(df, {"arrest", "domestic"} \cap df.columns, LAMBDA r, c : BoolTextExpr(r[c]))

CanonTypes(df) ==
    with_columns(df, {"primary_type", "fbi_code"}, LAMBDA r, c : CanonExpr(r[c]))

TemporalFeatures(df) ==
    with_columns(df, TemporalNames, LAMBDA r, c : TemporalExpr(r["date"], c))

DayParts(df) ==
    with_columns(df, DayPartNames, LAMBDA r, c : DayPartExpr(r["hour"], r["is_weekday"], c))

Season(df) == with_columns(df, {"season"}, LAMBDA r, c : SeasonExpr(r["month"]))

Holidays(df) ==
    with_columns(df, {"is_holiday"},
                 LAMBDA r, c : HolidayExpr(r["date"], BatchYears(df, "year")))

SpatialFlags(df) == with_columns(df, SpatialFlagNames, SpatialFlagExpr)

BadLocation(df) == with_columns(df, {"is_bad_location"}, LAMBDA r, c : BadLocationExpr(r))

Sentinel(df) == with_columns(df, {"latitude", "longitude"}, SentinelExpr)

GeoBins(df, decimals) == with_columns(df, BinNames, LAMBDA r, c : BinExpr(r, c, decimals))

Density(df) == with_columns(df, {"crime_density_bin"}, LAMBDA r, c : DensityExpr(df, r))

TypeFlags(df) ==
    with_columns(df, TypeFlagNames, LAMBDA r, c : TypeFlagExpr(r["primary_type"], c))

FbiCategory(df) ==
    with_columns(df, {"fbi_category"}, LAMBDA r, c : Lookup(fbi_map, r["fbi_code"], "Unknown"))

SeverityLevel(df) ==
    with_columns(df, {"crime_severity_level"},
                 LAMBDA r, c : Lookup(severity_map, r["fbi_category"], 0))

SeverityLabel(df) ==
    with_columns(df, {"crime_severity_label"},
                 LAMBDA r, c : Lookup(severity_labels, r["crime_severity_level"], "Unknown"))

FbiFlags(df) ==
    with_columns(df, {"is_violent_fbi", "is_property_fbi"},
                 LAMBDA r, c : FbiFlagExpr(r["fbi_code"], c))

CombinedFlags(df) ==
    with_columns(df, {"is_violent_combined", "is_property_combined"}, CombinedExpr)

\* crime_risk_score and high_risk_situation; nighttime and weekend name the
\* columns the variant reads
RiskFields(df, nighttime, weekend) ==
    with_columns(df, {"crime_risk_score", "high_risk_situation"},
        LAMBDA r, c :
            IF c = "crime_risk_score"
            THEN RiskScore(r["is_violent_combined"], r["is_property_combined"],
                           r["is_drug_related"])
            ELSE HighRisk(r["is_violent_combined"], r[nighttime],
                          r["is_weapon_related"], r[weekend]))

Category(df) ==
    with_columns(df, {"crime_category"},
        LAMBDA r, c :
            CrimeCategory(r["is_violent_combined"], r["is_property_combined"],
                          r["is_drug_related"], r["is_weapon_related"],
                          r["is_public_order"]))

TextBins(df) == with_columns(df, {"text_lat_bin", "text_lon_bin"}, TextBinExpr)

\* the crime-type part of add_features, the same in both variants but for the
\* two column names high_risk_situation reads
TypeFeatures(df, nighttime, weekend) ==
    Category(RiskFields(CombinedFlags(FbiFlags(SeverityLabel(SeverityLevel(
        FbiCategory(TypeFlags(df)))))), nighttime, weekend))

\* the field and time part of the per-day add_features
TimeFeatures(df) ==
    Holidays(Season(DayParts(TemporalFeatures(CanonTypes(BooleanFields(RangeFlags(
        ParseDate(clean_raw_fields(df)))))))))

\* the location part of the per-day add_features
GeoFeatures(df) == Density(GeoBins(Sentinel(BadLocation(SpatialFlags(df))), 4))

\* everything add_features does once the required columns are known to be there
EnrichDaily(df) ==
    TextBins(TypeFeatures(GeoFeatures(TimeFeatures(df)), "is_nighttime", "is_weekend"))

\* add_features: the enriched frame, or ValueError naming the missing columns
add_features(df0) ==
    LET df == RenameLower(df0)
        missing == MissingColumns(lower_required, df.columns)
    IN  IF missing # <<>>
        THEN [status |-> "error", error |-> "ValueError", missing |-> missing]
        ELSE [status |-> "ok", df |-> EnrichDaily(df)]

(***************************************************************************)
(* The per-day unit: ensure_columns, ensure_column_order, process_single_zip *)
(***************************************************************************)
CANONICAL_COLUMNS ==
    {"id", "case_number", "date", "block", "iucr", "primary_type", "description",
     "location_description", "arrest", "domestic", "beat", "district", "ward",
     "community_area", "fbi_code", "year", "updated_on", "x_coordinate", "y_coordinate",
     "latitude", "longitude", "ward_out_of_range", "community_area_out_of_range",
     "quarter", "month", "day", "hour", "day_of_week_num", "week_of_year", "is_weekend",
     "is_weekday", "is_daytime", "is_nighttime", "is_am", "is_pm", "is_business_hours",
     "is_off_business_hours", "is_school_hours", "is_late_night", "part_of_day", "season",
     "is_holiday", "is_missing_lat", "is_missing_lon", "lat_out_of_range",
     "lon_out_of_range", "is_bad_location", "lat_bin", "lon_bin", "geo_grid",
     "distance_from_downtown_km", "crime_density_bin", "is_violent", "is_property",
     "is_drug_related", "is_public_order", "is_weapon_related", "fbi_category",
     "crime_severity_level", "crime_severity_label", "is_violent_fbi", "is_property_fbi",
     "is_violent_combined", "is_property_combined", "crime_risk_score",
     "high_risk_situation", "crime_category", "text_lat_bin", "text_lon_bin"}

\* the columns ensure_columns asks for: the canonical ones and the parquet index
EnsuredColumns == CANONICAL_COLUMNS \cup {"__index_level_0__"}

\* lat_lon_to_xy(latitude, longitude)[idx]: the Web Mercator coordinate, kept as
\* the term of the projection call
Projected(lat, lon, axis) == <<"EPSG:3857", axis, lat, lon>>

\* the cell ensure_columns gives a column the frame lacks
EnsureExpr(row, name) ==
    IF name = "year" THEN Map1(LAMBDA t : t.year, row["date"])
    ELSE IF name \in {"x_coordinate", "y_coordinate"}
            /\ ~IsNull(row["latitude"]) /\ ~IsNull(row["longitude"])
    THEN Some(Projected(Val(row["latitude"]), Val(row["longitude"]), name))
    ELSE Null

ensure_columns(df) == with_columns(df, EnsuredColumns \ df.columns, EnsureExpr)

ensure_column_order(df) == select(df, CANONICAL_COLUMNS)

\* if "Date" in df.columns and "date" not in df.columns: rename
RenameDate(df) ==
    IF "Date" \in df.columns /\ "date" \notin df.columns
    THEN Renamed(df, LAMBDA c : IF c = "Date" THEN "date" ELSE c)
    ELSE df

\* process_single_zip on a readable archive: the frame written to the silver
\* directory, or the exception caught and printed with nothing written
process_single_zip(df0) ==
    LET r == add_features(RenameDate(df0))
    IN  IF r.status = "error"
        THEN [status |-> "skipped", error |-> r.error, missing |-> r.missing]
        ELSE [status |-> "written", df |-> ensure_column_order(ensure_columns(r.df))]

(***************************************************************************)
(* add_features of the bulk single-pass pipeline (src.py)                  *)
(***************************************************************************)
required_orginal ==
    <<"Latitude", "Longitude", "Beat", "District", "Ward", "Community Area",
      "Primary Type", "FBI Code", "ID", "Date">>

rename_map ==
    ("Latitude" :> "latitude") @@ ("Longitude" :> "longitude") @@ ("Beat" :> "beat")
    @@ ("District" :> "district") @@ ("Ward" :> "ward")
    @@ ("Community Area" :> "community_area") @@ ("Primary Type" :> "primary_type")
    @@ ("FBI Code" :> "fbi_code") @@ ("ID" :> "id")

\* df.rename(rename_map) on a frame that has every key
Rename(df, map) == Renamed(df, LAMBDA c : IF c \in DOMAIN map THEN map[c] ELSE c)

BulkTemporalNames ==
    {"Year", "Quarter", "Month", "Day", "Hour", "day_of_week_num", "week_of_year",
     "Is_Weekend", "Is_Weekday"}

BulkDayPartNames ==
    {"Is_Daytime", "Is_Nighttime", "Is_AM", "Is_PM", "Is_Business_Hours",
     "Is_Off_Business_Hours", "Is_School_Hours", "Is_Late_Night", "part_of_day"}

BulkParseDate(df) == with_columns(df, {"Date"}, LAMBDA r, c : Bind(StrptimeUs, r["Date"]))

BulkTemporalFeatures(df) ==
    with_columns(df, BulkTemporalNames, LAMBDA r, c : TemporalExpr(r["Date"], to_lowercase(c)))

BulkDayParts(df) ==
    with_columns(df, BulkDayPartNames,
                 LAMBDA r, c : DayPartExpr(r["Hour"], r["Is_Weekday"], to_lowercase(c)))

BulkSeason(df) == with_columns(df, {"Season"}, LAMBDA r, c : SeasonExpr(r["Month"]))

BulkHolidays(df) ==
    with_columns(df, {"is_holiday"},
                 LAMBDA r, c : HolidayExpr(r["Date"], BatchYears(df, "Year")))

\* the time part of the bulk add_features
BulkTimeFeatures(df) ==
    BulkHolidays(BulkSeason(BulkDayParts(BulkTemporalFeatures(BulkParseDate(df)))))

\* the bulk variant after its rename: no normalizer, no location flags, no
\* sentinel rewrite, bins of 2 decimals
EnrichBulk(df) ==
    TextBins(TypeFeatures(Density(GeoBins(BulkTimeFeatures(df), 2)),
                          "Is_Nighttime", "Is_Weekend"))

\* the columns whose absence makes the bulk add_features fail: the keys of the
\* rename and the Date column read right after it.  The required-column check
\* itself only passes.
BulkNotFound(columns) == {c \in SeqToSet(required_orginal) : c \notin columns}

\* add_features of src.py when the frame has what the rename and the parse read
add_features_bulk(df0) == [status |-> "ok", df |-> EnrichBulk(Rename(df0, rename_map))]

\* the failure of the bulk add_features: the engine's column-not-found error,
\* which names the one column it looked up
BulkFailure(column) ==
    [status |-> "error", error |-> "ColumnNotFoundError", missing |-> <<column>>]

(***************************************************************************)
(* Raw batches                                                             *)
(***************************************************************************)
\* one incident as the feed delivers it
DefaultRow ==
    [id |-> Some(1), case_number |-> Some("JH-123456"),
     date |-> Some("2024-03-13T22:00:00.000"), block |-> Some("001XX N STATE ST"),
     iucr |-> Some("0820"), primary_type |-> Some("THEFT"),
     description |-> Some("$500 AND UNDER"), location_description |-> Some("STREET"),
     arrest |-> Some("false"), domestic |-> Some("false"), beat |-> Some("0111"),
     district |-> Some("001"), ward |-> Some("42"), community_area |-> Some("32"),
     fbi_code |-> Some("06"), year |-> Some(2024),
     updated_on |-> Some("2024-03-20T15:40:00.000"), x_coordinate |-> Some(1176000),
     y_coordinate |-> Some(1900000), latitude |-> Some(4188312),
     longitude |-> Some(-8762781)]

With(row, col, cell) == (col :> cell) @@ row

Texts(S) == {Some(s) : s \in S} \cup {Null}

PrimaryTypes ==
    Texts({"THEFT", "MOTOR VEHICLE THEFT", "BATTERY", "CRIM SEXUAL ASSAULT", "NARCOTICS",
           "OTHER NARCOTIC VIOLATION", "WEAPONS VIOLATION", "PUBLIC PEACE VIOLATION",
           "DECEPTIVE PRACTICE", " Theft. "})
FbiCodes == Texts({"06", "04A", "17", "26", "08a", "99"})
\* a Wednesday night and a Saturday morning
TypeDates == {Some("2024-03-13T22:00:00.000"), Some("2024-03-16T10:30:00")}

TypeRows ==
    {With(With(With(DefaultRow, "primary_type", p), "fbi_code", f), "date", d) :
        p \in PrimaryTypes, f \in FbiCodes, d \in TypeDates}

Beats == Texts({"0111", "111", "1-2 3", "12B"})
Districts == Texts({"003", "3", "3.0", "D-7", "", "1234"})
Wards == Texts({"5", "005", "50", "51", "0", "W-12", "12.7", "abc", ""})
CommunityAreas == Texts({"25", "100", "101", "0", "n/a"})

GeoRows ==
    {With(DefaultRow, "beat", v) : v \in Beats}
    \cup {With(DefaultRow, "district", v) : v \in Districts}
    \cup {With(DefaultRow, "ward", v) : v \in Wards}
    \cup {With(DefaultRow, "community_area", v) : v \in CommunityAreas}

Dates ==
    Texts({"2024-03-15T22:00:00.000", "2024-07-04T03:15:00", "2023-01-01T12:00:00.000",
           "2021-01-03T08:30:00.5", "2024-02-30T10:00:00.000", "2024-13-01T00:00:00.000",
           "03/15/2024 10:00:00 PM", "2024-03-15 22:00:00", ""})

TimeRows == {With(DefaultRow, "date", v) : v \in Dates}

\* <<latitude, longitude>> in 1e-5 degree: two points of one grid cell, another
\* cell, the (0, 0) sentinel, a zero on one axis, out-of-range and missing ones
Coordinates ==
    {<<Some(4188312), Some(-8762781)>>, <<Some(4188314), Some(-8762779)>>,
     <<Some(4175003), Some(-8760002)>>, <<Some(0), Some(0)>>, <<Some(0), Some(-8762781)>>,
     <<Some(9500000), Some(-8762781)>>, <<Some(4188312), Some(-18100000)>>,
     <<Null, Some(-8762781)>>, <<Some(4188312), Null>>, <<Null, Null>>}

CoordRows ==
    {With(With(DefaultRow, "latitude", c[1]), "longitude", c[2]) : c \in Coordinates}
    \cup {With(With(With(DefaultRow, "latitude", Some(0)), "longitude", Some(0)), "id", Null)}

TextRows ==
    {With(DefaultRow, "description", v) :
        v \in Texts({"$500 AND UNDER", " Over  $500 ", "AGG: HANDGUN .", "to vehicle"})}
    \cup {With(DefaultRow, "block", v) :
        v \in Texts({"001XX N STATE ST", "0000X W DR MARTIN LUTHER KING JR DR",
                     "012xx s ashland ave", " 55 E PL ", "STREET ST"})}
    \cup {With(DefaultRow, "iucr", v) : v \in Texts({"0820", "820", " 04-60 ", "031A"})}
    \cup {With(DefaultRow, "case_number", v) : v \in Texts({"JH-123456", " jh 1 ", "HZ100200"})}
    \cup {With(DefaultRow, "location_description", v) :
        v \in Texts({"STREET", "APT", "APARTMENT / apt", " RESIDENCE", "\\RESIDENCE\\b"})}
    \cup {With(DefaultRow, "arrest", v) : v \in Texts({"true", "True", "Y", "0", "false"})}

Frame(rows) == [columns |-> DOMAIN rows[1], rows |-> rows]

\* the largest batch whose rows share grid cells
MaxBatch == 2

RECURSIVE SeqsOf(_, _)
SeqsOf(S, n) ==
    IF n = 0 THEN {<<>>} ELSE {Append(q, x) : q \in SeqsOf(S, n - 1), x \in S}

SingleBatches ==
    {<<r>> : r \in TypeRows \cup GeoRows \cup TimeRows \cup CoordRows \cup TextRows}

\* rows for batches of several incidents: two points of one grid cell, another
\* cell, the (0, 0) sentinel and an out-of-range latitude
CellRows ==
    {With(With(DefaultRow, "latitude", c[1]), "longitude", c[2]) :
        c \in {<<Some(4188312), Some(-8762781)>>, <<Some(4188314), Some(-8762779)>>,
               <<Some(4175003), Some(-8760002)>>, <<Some(0), Some(0)>>,
               <<Some(9500000), Some(-8762781)>>}}

CoordBatches == UNION {SeqsOf(CellRows, n) : n \in 2..MaxBatch}

\* the most columns a batch lacks
MaxMissing == 2

\* the columns a delivery may lack: the required ones and two optional ones
Droppable == SeqToSet(lower_required) \cup {"arrest", "description"}

RECURSIVE SetsUpTo(_, _)
SetsUpTo(S, n) ==
    IF n = 0 THEN {{}} ELSE SetsUpTo(S, n - 1) \cup {D \cup {c} : D \in SetsUpTo(S, n - 1), c \in S}

DroppedSets == SetsUpTo(Droppable, MaxMissing)

Without(df, D) == select(df, df.columns \ D)

\* the same batch under the header spellings the sources use
Styled(df, style) ==
    Renamed(df, LAMBDA c : CASE style = "lower" -> c
                             [] style = "upper" -> to_uppercase(c)
                             [] style = "Date" -> IF c = "date" THEN "Date" ELSE c)

HeaderStyles == {"lower", "upper", "Date"}

\* the timestamp of the feed as the bulk export writes it
UsDate ==
    ("2024-03-13T22:00:00.000" :> "03/13/2024 10:00:00 PM")
    @@ ("2024-03-16T10:30:00" :> "03/16/2024 10:30:00 AM")
    @@ ("2024-03-15T22:00:00.000" :> "03/15/2024 10:00:00 PM")
    @@ ("2024-07-04T03:15:00" :> "07/04/2024 03:15:00 AM")
    @@ ("2023-01-01T12:00:00.000" :> "01/01/2023 12:00:00 PM")
    @@ ("2021-01-03T08:30:00.5" :> "01/03/2021 12:30:00 AM")
    @@ ("2024-02-30T10:00:00.000" :> "02/30/2024 10:00:00 AM")
    @@ ("2024-13-01T00:00:00.000" :> "13/01/2024 12:00:00 AM")

\* header of the bulk export for a column of the feed
ExportName ==
    ("latitude" :> "Latitude") @@ ("longitude" :> "Longitude") @@ ("beat" :> "Beat")
    @@ ("district" :> "District") @@ ("ward" :> "Ward")
    @@ ("community_area" :> "Community Area") @@ ("primary_type" :> "Primary Type")
    @@ ("fbi_code" :> "FBI Code") @@ ("id" :> "ID") @@ ("date" :> "Date")
    @@ ("arrest" :> "Arrest") @@ ("domestic" :> "Domestic")

\* the batch as the bulk export delivers it
Exported(df) ==
    LET kept == df.columns \cap DOMAIN ExportName
        stamped == with_columns(select(df, kept), {"date"} \cap kept,
                      LAMBDA r, c : IF ~IsNull(r[c]) /\ Val(r[c]) \in DOMAIN UsDate
                                    THEN Some(UsDate[Val(r[c])]) ELSE r[c])
    IN  Renamed(stamped, LAMBDA c : ExportName[c])

FeedFrames ==
    {Frame(b) : b \in SingleBatches \cup CoordBatches}
    \cup {Styled(Without(Frame(<<DefaultRow>>), D), st) : D \in DroppedSets, st \in HeaderStyles}

ExportFrames ==
    {Exported(Frame(b)) : b \in {<<r>> : r \in TypeRows \cup TimeRows} \cup CoordBatches}
    \cup {Exported(Without(Frame(<<DefaultRow>>), D)) : D \in DroppedSets}

Inputs == FeedFrames \cup ExportFrames

(***************************************************************************)
(* The state machine                                                       *)
(***************************************************************************)
\* the most runs of the Field Normalizer over one batch
MaxRuns == 2

Init ==
    /\ input \in Inputs
    /\ op = "none"
    /\ result = [status |-> "none"]
    /\ normalized = <<input>>

\* add_features(df) of the per-day pipeline
AddFeatures ==
    /\ op = "none"
    /\ op' = "add_features"
    /\ result' = add_features(input)
    /\ UNCHANGED <<input, normalized>>

\* add_features(df) of the bulk pipeline: the rename raises on a key the frame
\* lacks, then the parse raises on a missing Date
AddFeaturesBulk ==
    /\ op = "none"
    /\ op' = "add_features_bulk"
    /\ LET keys == BulkNotFound(input.columns) \cap DOMAIN rename_map
       IN  IF keys # {} THEN \E c \in keys : result' = BulkFailure(c)
           ELSE IF "Date" \notin input.columns THEN result' = BulkFailure("Date")
           ELSE result' = add_features_bulk(input)
    /\ UNCHANGED <<input, normalized>>

\* process_single_zip(zip_path, silver_dir)
ProcessSingleZip ==
    /\ op = "none"
    /\ op' = "process_single_zip"
    /\ result' = process_single_zip(input)
    /\ UNCHANGED <<input, normalized>>

\* clean_raw_fields(df), run on the batch and again on its own output
CleanRawFields ==
    /\ op \in {"none", "clean_raw_fields"}
    /\ Len(normalized) <= MaxRuns
    /\ op' = "clean_raw_fields"
    /\ normalized' = Append(normalized, clean_raw_fields(normalized[Len(normalized)]))
    /\ UNCHANGED <<input, result>>

Next == AddFeatures \/ AddFeaturesBulk \/ ProcessSingleZip \/ CleanRawFields

Spec == Init /\ [][Next]_vars

(***************************************************************************)
(* Report Period Generator                                                 *)
(*                                                                         *)
(* A datetime at midnight is a record of year, month and day; timedelta    *)
(* arithmetic goes through the proleptic ordinal of the day.               *)
(***************************************************************************)
Datetime(y, m, d) == [year |-> y, month |-> m, day |-> d]

Ordinal(date) == ToOrdinal(date.year, date.month, date.day)

\* date.fromordinal(n)
FromOrdinal(n) ==
    LET guess == (n * 400) \div 146097
        y == CHOOSE c \in (guess - 1)..(guess + 2) :
                 ToOrdinal(c, 1, 1) <= n /\ n < ToOrdinal(c + 1, 1, 1)
        doy == n - ToOrdinal(y, 1, 1) + 1
        m == CHOOSE c \in 1..12 :
                 DaysBeforeMonth(y, c) < doy /\ doy <= DaysBeforeMonth(y, c) + DaysInMonth(y, c)
    IN  Datetime(y, m, doy - DaysBeforeMonth(y, m))

\* date + timedelta(days=k), date - timedelta(days=k) for a negative k
PlusDays(date, k) == FromOrdinal(Ordinal(date) + k)

Before(a, b) == Ordinal(a) < Ordinal(b)

\* the first day of the month after current
SameDayNextMonth(current) ==
    IF current.month = 12 THEN Datetime(current.year + 1, 1, current.day)
    ELSE Datetime(current.year, current.month + 1, current.day)

NextMonth(current) ==
    IF current.month = 12 THEN Datetime(current.year + 1, 1, 1)
    ELSE Datetime(current.year, current.month + 1, 1)

\* the anchors: min_date, then the first day of every later month up to max_date
RECURSIVE months(_, _)
months(current, max_date) ==
    IF Before(max_date, current) THEN <<>>
    ELSE <<current>> \o months(NextMonth(current), max_date)

report_date_yyyymm(report_date) == report_date.year * 100 + report_date.month

Period(report_type, report_date, start_date, end_date) ==
    [report_type |-> report_type, report_date |-> report_date,
     report_date_yyyymm |-> report_date_yyyymm(report_date),
     start_date |-> start_date, end_date |-> end_date]

ytd_start(report_date) == Datetime(report_date.year, 1, 1)

prior_ytd_start(report_date) == Datetime(report_date.year - 1, 1, 1)

prior_ytd_end(report_date) ==
    IF report_date.month # 12
    THEN PlusDays(Datetime(report_date.year - 1, report_date.month + 1, 1), -1)
    ELSE PlusDays(Datetime(report_date.year, 1, 1), -1)

\* a rolling window that counts 365 days with both ends included
R12StartInclusive(report_date) == PlusDays(report_date, -364)

r12_start(report_date) == PlusDays(report_date, -365)

prior_r12_end(report_date) == PlusDays(r12_start(report_date), -1)

prior_r12_start(report_date) == PlusDays(prior_r12_end(report_date), -365)

\* the two records the metadata tracker builds for an anchor
CurrentRecords(report_date) ==
    <<Period("R12", report_date, r12_start(report_date), report_date),
      Period("YTD", report_date, ytd_start(report_date), report_date)>>

\* the four records built for an anchor
Records(report_date) ==
    CurrentRecords(report_date)
    \o <<Period("Prior R12", report_date, prior_r12_start(report_date),
                prior_r12_end(report_date)),
         Period("Prior YTD", report_date, prior_ytd_start(report_date),
                prior_ytd_end(report_date))>>

\* records.extend(..) for every anchor in turn
RECURSIVE Extended(_)
Extended(anchors) ==
    IF anchors = <<>> THEN <<>> ELSE Records(Head(anchors)) \o Extended(Tail(anchors))

RECURSIVE ExtendedCurrent(_)
ExtendedCurrent(anchors) ==
    IF anchors = <<>> THEN <<>>
    ELSE CurrentRecords(Head(anchors)) \o ExtendedCurrent(Tail(anchors))

MinValidDate == Datetime(2001, 1, 1)

\* a filter that asks for a start after the minimum valid date
StartsAfterMinValid(period) == Before(MinValidDate, period.start_date)

StartsValid(period) == ~Before(period.start_date, MinValidDate)

\* if year < 2: continue
ValidYear(report_date) == ~(report_date.year < 2)

IsCurrent(period) == to_lowercase(period.report_type) \notin {"prior r12", "prior ytd"}

\* generate_report_periods(min_date, max_date) of the report data creation:
\* a frame built from no record has no column and the first filter raises
generate_report_periods(min_date, max_date) ==
    IF Before(max_date, min_date)
    THEN [status |-> "error", error |-> "ColumnNotFoundError", column |-> "start_date"]
    ELSE [status |-> "ok",
          periods |-> SelectSeq(SelectSeq(Extended(months(min_date, max_date)),
                                          StartsValid),
                                IsCurrent)]

\* generate_report_periods(min_date, max_date) of the bulk pipeline
generate_report_periods_bulk(min_date, max_date) ==
    [status |-> "ok",
     periods |-> Extended(SelectSeq(months(min_date, max_date), ValidYear))]

\* generate_report_periods(min_date, max_date) of the metadata tracker
generate_report_periods_tracker(min_date, max_date) ==
    [status |-> "ok",
     periods |-> ExtendedCurrent(SelectSeq(months(min_date, max_date), ValidYear))]

(***************************************************************************)
(* Period Materializer                                                     *)
(*                                                                         *)
(* The silver folder is a set of daily files silver_YYYY-MM-DD.zip, each   *)
(* the day of its name, the schema of its frame and its records; a record  *)
(* is its id, the day and the hour of its event.  pl.concat raises on two  *)
(* frames of different schemas (ensure_columns adds a column a day lacks   *)
(* as a Null-typed literal).                                               *)
(***************************************************************************)
InRange(date, start_date, end_date) == ~Before(date, start_date) /\ ~Before(end_date, date)

\* the files silver_<day>.zip found for the days start_date .. end_date, in
\* the order of the days
RECURSIVE InDayOrder(_)
InDayOrder(files) ==
    IF files = {} THEN <<>>
    ELSE LET first == CHOOSE f \in files : \A g \in files : ~Before(g.date, f.date)
         IN  <<first>> \o InDayOrder(files \ {first})

files_to_read(data_folder, report_start_date, report_end_date) ==
    InDayOrder({f \in data_folder : InRange(f.date, report_start_date, report_end_date)})

\* report_df after the loop: the first frame, and each later frame appended
\* unless pl.concat raises, which is printed and the frame left out
RECURSIVE Concatenated(_, _)
Concatenated(report_df, files) ==
    IF files = <<>> THEN report_df
    ELSE IF Head(files).schema = report_df.schema
    THEN Concatenated([report_df EXCEPT !.rows = @ \o Head(files).rows], Tail(files))
    ELSE Concatenated(report_df, Tail(files))

\* strftime('%Y_%m')
YearMonth(date) == <<date.year, date.month>>

get_report_periods_data(data_folder, report_start_date, report_end_date, report_type) ==
    LET files == files_to_read(data_folder, report_start_date, report_end_date)
    IN  IF files = <<>>
        THEN [status |-> "error", error |-> "ValueError"]
        ELSE [status |-> "ok",
              df |-> [report_type |-> report_type,
                      report_start_date |-> YearMonth(report_start_date),
                      report_end_date |-> YearMonth(report_end_date),
                      schema |-> Head(files).schema,
                      rows |-> Concatenated([schema |-> Head(files).schema,
                                             rows |-> Head(files).rows],
                                            Tail(files)).rows]]

\* silver_{report_type}_{start %Y_%m}_{end %Y_%m}.zip
PeriodFileName(period) ==
    <<"silver", to_lowercase(period.report_type), YearMonth(period.start_date),
      YearMonth(period.end_date)>>

\* create_report_periods_df: the period files written, row after row of the
\* period table, until a call of get_report_periods_data raises
RECURSIVE create_report_periods_df(_, _, _)
create_report_periods_df(report_periods_df, data_folder, written) ==
    IF report_periods_df = <<>> THEN [status |-> "ok", written |-> written]
    ELSE LET row == Head(report_periods_df)
             report_df == get_report_periods_data(data_folder, row.start_date,
                                                  row.end_date, row.report_type)
         IN  IF report_df.status = "error"
             THEN [status |-> "error", error |-> report_df.error, written |-> written]
             ELSE create_report_periods_df(
                      Tail(report_periods_df), data_folder,
                      Append(written, [file_name |-> PeriodFileName(row), period |-> row,
                                       df |-> report_df.df]))

\* get_min_max_dates(folder): the least and the greatest day of a file name
MinDate(data_folder) ==
    (CHOOSE f \in data_folder : \A g \in data_folder : ~Before(g.date, f.date)).date

MaxDate(data_folder) ==
    (CHOOSE f \in data_folder : \A g \in data_folder : ~Before(f.date, g.date)).date

\* create_report_periods_table(data_folder)
create_report_periods_table(data_folder) ==
    IF data_folder = {} THEN [status |-> "error", error |-> "ValueError"]
    ELSE generate_report_periods(PlusDays(MinDate(data_folder), 365), MaxDate(data_folder))

\* main() of the report data creation
MaterializeMain(data_folder) ==
    LET table == create_report_periods_table(data_folder)
    IN  IF table.status = "error"
        THEN [status |-> "error", error |-> table.error, written |-> <<>>]
        ELSE create_report_periods_df(table.periods, data_folder, <<>>)

\* the Date of a row against a date literal, which is cast to the datetime of
\* its midnight: Date >= start and Date <= end
DateInRange(row, report_start_date, report_end_date) ==
    /\ ~Before(row.date, report_start_date)
    /\ \/ Before(row.date, report_end_date)
       \/ row.date = report_end_date /\ row.seconds = 0

\* df.sort('report_date_yyyymm', descending=True)
RECURSIVE SortedDescending(_)
SortedDescending(periods) ==
    IF periods = <<>> THEN <<>>
    ELSE LET first == CHOOSE i \in DOMAIN periods :
                          /\ \A j \in DOMAIN periods :
                                 periods[j].report_date_yyyymm <= periods[i].report_date_yyyymm
                          /\ \A j \in 1..(i - 1) :
                                 periods[j].report_date_yyyymm < periods[i].report_date_yyyymm
         IN  <<periods[first]>>
             \o SortedDescending(SubSeq(periods, 1, first - 1)
                                 \o SubSeq(periods, first + 1, Len(periods)))

\* the loop of create_silver_df: a period file is written if a row passes the filter
RECURSIVE ReportFiles(_, _)
ReportFiles(silver_df, periods) ==
    IF periods = <<>> THEN <<>>
    ELSE LET row == Head(periods)
             filtered == SelectSeq(silver_df,
                                   LAMBDA r : DateInRange(r, row.start_date, row.end_date))
         IN  (IF filtered # <<>>
              THEN <<[file_name |-> <<row.report_type, row.report_date_yyyymm>>,
                      period |-> row,
                      df |-> [report_type |-> row.report_type, rows |-> filtered]]>>
              ELSE <<>>)
             \o ReportFiles(silver_df, Tail(periods))

\* create_silver_df() of the bulk pipeline on the enriched frame
create_silver_df(silver_df) ==
    LET days == {[date |-> silver_df[i].date] : i \in DOMAIN silver_df}
    IN  [status |-> "ok",
         written |-> ReportFiles(silver_df,
                                 SortedDescending(
                                     generate_report_periods_bulk(MinDate(days),
                                                                  MaxDate(days)).periods))]

(***************************************************************************)
(* Period Aggregator and Cross-Period Combiner                             *)
(*                                                                         *)
(* A period batch is its report_type, its report_date and its rows, a row  *)
(* the id, the primary_type and the fbi_code of a record (every row has a  *)
(* Case Number).  An aggregate row is a function from column names to      *)
(* cells.                                                                  *)
(***************************************************************************)
\* the category of a row as melt_and_pivot rewrites it before grouping
MeltValue(row, value_var) ==
    IF IsNull(row[value_var]) THEN Null
    ELSE Some(SpacesToUnderscore(to_lowercase(Val(row[value_var]))))

MeltPrefix(value_var) == IF value_var = "primary_type" THEN "crime_" ELSE value_var \o "_"

\* melt_and_pivot(df, value_var): a column for each category that is not null,
\* holding pl.col("id").count() of its group
melt_and_pivot(df, value_var) ==
    LET values == {Val(MeltValue(df.rows[i], value_var)) :
                      i \in {j \in DOMAIN df.rows : ~IsNull(df.rows[j][value_var])}}
        names == {MeltPrefix(value_var) \o v : v \in values}
    IN  [c \in names |->
            LET v == CHOOSE x \in values : MeltPrefix(value_var) \o x = c
            IN  Some(Cardinality({i \in DOMAIN df.rows :
                                     /\ ~IsNull(df.rows[i].id)
                                     /\ MeltValue(df.rows[i], value_var) = Some(v)}))]

\* the rows of a frame that hold a value in a column
NonNull(df, col) == {i \in DOMAIN df.rows : ~IsNull(df.rows[i][col])}

RECURSIVE SumAt(_, _, _)
SumAt(df, col, idx) ==
    IF idx = {} THEN 0
    ELSE LET i == CHOOSE x \in idx : TRUE
         IN  Val(df.rows[i][col]) + SumAt(df, col, idx \ {i})

\* pl.col(col).mean(): the mean of the values that are not null, in
\* hundredths; null when the column holds no value
mean(df, col) ==
    IF NonNull(df, col) = {} THEN Null
    ELSE Some((SumAt(df, col, NonNull(df, col)) * 100) \div Cardinality(NonNull(df, col)))

\* pl.col(col).max(): null when the column holds no value
max(df, col) ==
    IF NonNull(df, col) = {} THEN Null
    ELSE Some(CHOOSE v \in {Val(df.rows[i][col]) : i \in NonNull(df, col)} :
                 \A i \in NonNull(df, col) : v >= Val(df.rows[i][col]))

\* the numeric aggregates of the summary, of either pipeline
NumericAggregates(df) ==
    ("avg_crime_risk_score" :> mean(df, "crime_risk_score"))
    @@ ("max_crime_risk_score" :> max(df, "crime_risk_score"))

\* pl.col("date").min().cast(pl.Date): the day of the earliest record
RecordStartDate(df) ==
    CHOOSE d \in {df.rows[i].date : i \in DOMAIN df.rows} :
        \A i \in DOMAIN df.rows : ~Before(df.rows[i].date, d)

\* pl.col("date").max().cast(pl.Date): the day of the latest record
RecordEndDate(df) ==
    CHOOSE d \in {df.rows[i].date : i \in DOMAIN df.rows} :
        \A i \in DOMAIN df.rows : ~Before(d, df.rows[i].date)

\* base_agg(df): the group key, the days of the earliest and of the latest
\* record, total_cases = pl.col("id").count(), the numeric aggregates, and
\* report_date = report_end_date in the %Y%m format
base_agg(df) ==
    ("report_type" :> Some(df.report_type))
    @@ ("report_start_date" :> Some(RecordStartDate(df)))
    @@ ("report_end_date" :> Some(RecordEndDate(df)))
    @@ ("report_date" :> Some(report_date_yyyymm(RecordEndDate(df))))
    @@ ("total_cases" :> Some(Cardinality({i \in DOMAIN df.rows : ~IsNull(df.rows[i].id)})))
    @@ NumericAggregates(df)

\* process_zip_file: base_agg left-joined with the pivot of each dimension
process_zip_file(df) ==
    base_agg(df) @@ melt_and_pivot(df, "primary_type") @@ melt_and_pivot(df, "fbi_code")

\* str(col).lower().replace(' ', '_')
RECURSIVE LowerAndUnderscore(_)
LowerAndUnderscore(s) ==
    IF s = "" THEN ""
    ELSE (IF Head(s) = " " THEN "_" ELSE LowerChar(Head(s))) \o LowerAndUnderscore(Tail(s))

\* the column make_pivot names for a value of group_col
PivotName(group_col, value) ==
    IF group_col = "primary_type" THEN "crime_" \o LowerAndUnderscore(value)
    ELSE "fbi_" \o value

\* make_pivot(df, group_col, prefix, join_keys): a column for each value that
\* is not null, holding pl.count("Case Number") of its group
make_pivot(df, group_col) ==
    LET unique_vals == {Val(df.rows[i][group_col]) :
                           i \in {j \in DOMAIN df.rows : ~IsNull(df.rows[j][group_col])}}
        select_cols == {PivotName(group_col, v) : v \in unique_vals}
    IN  [c \in select_cols |->
            LET v == CHOOSE x \in unique_vals : PivotName(group_col, x) = c
            IN  Some(Cardinality({i \in DOMAIN df.rows : df.rows[i][group_col] = Some(v)}))]

\* make_summary_agg(df, join_keys): total_cases = pl.col("id").n_unique()
make_summary_agg(df) ==
    ("report_type" :> Some(df.report_type)) @@ ("report_date" :> Some(df.report_date))
    @@ ("total_cases" :> Some(Cardinality({df.rows[i].id : i \in DOMAIN df.rows})))
    @@ NumericAggregates(df)

\* create_aggregated_dataframe(df, join_keys): the summary left-joined with the
\* pivots, fill_null(0)
create_aggregated_dataframe(df) ==
    LET final_df == make_summary_agg(df) @@ make_pivot(df, "primary_type")
                    @@ make_pivot(df, "fbi_code")
    IN  [c \in DOMAIN final_df |->
            IF IsNull(final_df[c]) /\ c # "report_type" THEN Some(0) ELSE final_df[c]]

\* the union of the columns of the aggregates
AllCols(dfs) == UNION {DOMAIN dfs[i] : i \in DOMAIN dfs}

\* _harmonize_and_concat(dfs): a column an aggregate lacks is added as
\* pl.lit(None), then the frames are stacked
harmonize_and_concat(dfs) ==
    [i \in DOMAIN dfs |->
        [c \in AllCols(dfs) |-> IF c \in DOMAIN dfs[i] THEN dfs[i][c] ELSE Null]] \o <<>>

\* combine_parquet_files_incremental: pd.concat leaves NaN in a column a frame
\* lacks, then fillna(0) on every int64 and float64 column
combine_parquet_files_incremental(dfs) ==
    [i \in DOMAIN dfs |->
        [c \in AllCols(dfs) |->
            LET cell == IF c \in DOMAIN dfs[i] THEN dfs[i][c] ELSE Null
            IN  IF IsNull(cell) /\ c # "report_type" THEN Some(0) ELSE cell]] \o <<>>

(***************************************************************************)
(* The report pipeline: calls and their arguments                          *)
(***************************************************************************)
\* the most 30-day steps from min_date to max_date
MaxMonths == 3

MinDates ==
    {Datetime(2000, 11, 15), Datetime(2001, 1, 1), Datetime(2001, 1, 31),
     Datetime(2001, 11, 1), Datetime(2001, 12, 31), Datetime(2002, 1, 1),
     Datetime(2023, 12, 1), Datetime(2024, 1, 31), Datetime(2024, 2, 29),
     Datetime(2024, 12, 31), Datetime(2025, 3, 31), Datetime(2025, 6, 30)}

\* max_date: the day before min_date, min_date, or up to MaxMonths steps later
DateRanges ==
    {[kind |-> "dates", min_date |-> d, max_date |-> PlusDays(d, k)] :
        d \in MinDates, k \in {-1} \cup {30 * n : n \in 0..MaxMonths}}

\* the days that have a daily file, and the dtype of the column that
\* ensure_columns added to the frame of a day or found in it
FileDays ==
    {Datetime(2001, 1, 1), Datetime(2001, 6, 15), Datetime(2002, 1, 1),
     Datetime(2002, 1, 20), Datetime(2002, 2, 1)}

Schemas == {"Utf8", "Null"}

\* the records of a day: one at midnight, one in the afternoon
DayRows(date) ==
    <<[id |-> Some(Ordinal(date) * 10), date |-> date, seconds |-> 0,
       primary_type |-> Some("THEFT"), fbi_code |-> Some("06"),
       crime_risk_score |-> Some(3)],
      [id |-> Some(Ordinal(date) * 10 + 1), date |-> date, seconds |-> 49800,
       primary_type |-> Some("ARSON"), fbi_code |-> Some("09"),
       crime_risk_score |-> Null]>>

SilverFile(date, schema) == [date |-> date, schema |-> schema, rows |-> DayRows(date)]

\* a folder holds, for each day, no file or the file of the day in one schema
Folders ==
    {[kind |-> "folder",
      files |-> {SilverFile(d, present[d]) : d \in {x \in FileDays : present[x] # "absent"}}] :
        present \in [FileDays -> Schemas \cup {"absent"}]}

\* the enriched frame of the bulk pipeline: the records of some days
RECURSIVE RowsOf(_)
RowsOf(files) ==
    IF files = <<>> THEN <<>> ELSE Head(files).rows \o RowsOf(Tail(files))

SilverFrames ==
    {[kind |-> "silver_df", rows |-> RowsOf(InDayOrder(f.files))] :
        f \in {g \in Folders : g.files # {} /\ \A x \in g.files : x.schema = "Utf8"}}

\* the most records of the first period batch
MaxPeriodRows == 2

\* records of a period batch: two of one id, one without an FBI code, two
\* without a risk score
AggRows ==
    {[id |-> Some(1), primary_type |-> Some("THEFT"), fbi_code |-> Some("06"),
      crime_risk_score |-> Some(3)],
     [id |-> Some(1), primary_type |-> Some("ARSON"), fbi_code |-> Some("09"),
      crime_risk_score |-> Some(6)],
     [id |-> Some(2), primary_type |-> Some("THEFT"), fbi_code |-> Null,
      crime_risk_score |-> Null],
     [id |-> Some(3), primary_type |-> Some("MOTOR VEHICLE THEFT"), fbi_code |-> Some("07"),
      crime_risk_score |-> Null],
     [id |-> Some(4), primary_type |-> Some("ARSON"), fbi_code |-> Some("09"),
      crime_risk_score |-> Some(0)]}

\* records that happened on a day
Dated(rows, date) == [i \in DOMAIN rows |-> [date |-> date] @@ rows[i]] \o <<>>

\* two period batches: R12 of two consecutive months, the first with records
\* of 2024-01-15 only, the second with a record of 2025-01-20 only
PeriodBatches ==
    {[kind |-> "period_batches",
      batches |-> <<[report_type |-> "R12", report_date |-> 202501,
                     rows |-> Dated(first, Datetime(2024, 1, 15))],
                    [report_type |-> "R12", report_date |-> 202502,
                     rows |-> Dated(<<second>>, Datetime(2025, 1, 20))]>>] :
        first \in UNION {SeqsOf(AggRows, n) : n \in 1..MaxPeriodRows}, second \in AggRows}

ReportInputs == DateRanges \cup Folders \cup SilverFrames \cup PeriodBatches

ReportInit ==
    /\ input \in ReportInputs
    /\ op = "none"
    /\ result = [status |-> "none"]
    /\ normalized = <<>>

\* generate_report_periods(min_date, max_date) of the report data creation,
\* called once or again with the same arguments
GenerateReportPeriods ==
    /\ input.kind = "dates"
    /\ op \in {"none", "generate_report_periods"}
    /\ op' = "generate_report_periods"
    /\ result' = generate_report_periods(input.min_date, input.max_date)
    /\ UNCHANGED <<input, normalized>>

\* generate_report_periods(min_date, max_date) of the bulk pipeline, given the
\* least and the greatest Date of the data
GenerateReportPeriodsBulk ==
    /\ input.kind = "dates"
    /\ ~Before(input.max_date, input.min_date)
    /\ op = "none"
    /\ op' = "generate_report_periods_bulk"
    /\ result' = generate_report_periods_bulk(input.min_date, input.max_date)
    /\ UNCHANGED <<input, normalized>>

\* generate_report_periods(start_date, end_date) of the metadata tracker,
\* whose main passes 2001-01-01 as start_date
GenerateReportPeriodsTracker ==
    /\ input.kind = "dates"
    /\ input.min_date = Datetime(2001, 1, 1)
    /\ ~Before(input.max_date, input.min_date)
    /\ op = "none"
    /\ op' = "generate_report_periods_tracker"
    /\ result' = generate_report_periods_tracker(input.min_date, input.max_date)
    /\ UNCHANGED <<input, normalized>>

\* main() of the report data creation on a silver folder
CreateReportPeriodsDf ==
    /\ input.kind = "folder"
    /\ op = "none"
    /\ op' = "create_report_periods_df"
    /\ result' = MaterializeMain(input.files)
    /\ UNCHANGED <<input, normalized>>

\* create_silver_df() of the bulk pipeline
CreateSilverDf ==
    /\ input.kind = "silver_df"
    /\ op = "none"
    /\ op' = "create_silver_df"
    /\ result' = create_silver_df(input.rows)
    /\ UNCHANGED <<input, normalized>>

\* main() of the gold aggregation on each period batch, then
\* combine_parquet_files_incremental on the aggregates
AggregateAndCombine ==
    /\ input.kind = "period_batches"
    /\ op = "none"
    /\ op' = "combine_parquet_files_incremental"
    /\ LET aggregates == [i \in DOMAIN input.batches |-> process_zip_file(input.batches[i])]
                         \o <<>>
       IN  result' = [status |-> "ok", aggregates |-> aggregates,
                      combined |-> combine_parquet_files_incremental(aggregates)]
    /\ UNCHANGED <<input, normalized>>

\* aggregate_all_report_dates() of the bulk pipeline: every report file is
\* aggregated, the aggregates are harmonized and stacked
AggregateAllReportDates ==
    /\ input.kind = "period_batches"
    /\ op = "none"
    /\ op' = "aggregate_all_report_dates"
    /\ LET aggregates == [i \in DOMAIN input.batches |->
                             create_aggregated_dataframe(input.batches[i])] \o <<>>
       IN  result' = [status |-> "ok", aggregates |-> aggregates,
                      combined |-> harmonize_and_concat(aggregates)]
    /\ UNCHANGED <<input, normalized>>

ReportNext ==
    \/ GenerateReportPeriods
    \/ GenerateReportPeriodsBulk
    \/ GenerateReportPeriodsTracker
    \/ CreateReportPeriodsDf
    \/ CreateSilverDf
    \/ AggregateAndCombine
    \/ AggregateAllReportDates

ReportSpec == ReportInit /\ [][ReportNext]_vars

(***************************************************************************)
(* The gold pipeline: from the daily batches to the gold table             *)
(*                                                                         *)
(* The report data creation writes a batch for each period, the gold       *)
(* aggregation an aggregate for each batch, and the dashboard aggregation  *)
(* combines the aggregates and joins each row to the row of a year before. *)
(***************************************************************************)
\* save_aggregated_df: {report_type}_{report_start}_{report_end}.parquet, the
\* parts taken from the name of the period batch
AggregateFileName(file_name) == <<file_name[2], file_name[3], file_name[4]>>

\* main() of the gold aggregation: process_zip on each period batch, in the
\* order of the sorted listing; an aggregate without rows is not saved
RECURSIVE gold_main(_)
gold_main(written) ==
    IF written = <<>> THEN <<>>
    ELSE (IF Head(written).df.rows = <<>> THEN <<>>
          ELSE <<[file_name |-> AggregateFileName(Head(written).file_name),
                  df |-> process_zip_file(Head(written).df)]>>)
         \o gold_main(Tail(written))

\* extract_zip_files_to_temp: every archive is extracted into one directory,
\* a member replacing an earlier member of its name
RECURSIVE extract_zip_files_to_temp(_)
extract_zip_files_to_temp(gold_data) ==
    IF gold_data = <<>> THEN <<>>
    ELSE (IF \E i \in DOMAIN Tail(gold_data) :
                 Tail(gold_data)[i].file_name = Head(gold_data).file_name
          THEN <<>> ELSE <<Head(gold_data).df>>)
         \o extract_zip_files_to_temp(Tail(gold_data))

\* report_end_date - pd.DateOffset(months=12): the same day a year before,
\* the last day of the month when the month is shorter
prior_end_date(report_end_date) ==
    Datetime(report_end_date.year - 1, report_end_date.month,
             IF report_end_date.day > DaysInMonth(report_end_date.year - 1, report_end_date.month)
             THEN DaysInMonth(report_end_date.year - 1, report_end_date.month)
             ELSE report_end_date.day)

\* df_prior: every column renamed with the prefix prior_
PriorRow(row) == [c \in {"prior_" \o x : x \in DOMAIN row} |-> row[Drop(c, 6)]]

\* the columns of df_prior, null
NoPriorRow(row) == [c \in {"prior_" \o x : x \in DOMAIN row} |-> Null]

\* the rows of df_prior whose prior_report_end_date and prior_report_type are
\* the prior_end_date and the report_type of a row
RECURSIVE PriorMatches(_, _)
PriorMatches(row, df_prior) ==
    IF df_prior = <<>> THEN <<>>
    ELSE (IF /\ Head(df_prior)["report_end_date"]
                    = Some(prior_end_date(Val(row["report_end_date"])))
             /\ Head(df_prior)["report_type"] = row["report_type"]
          THEN <<Head(df_prior)>> ELSE <<>>)
         \o PriorMatches(row, Tail(df_prior))

\* a row of the left merge for each match, one row of nulls without a match
MergedRows(row, matches) ==
    IF matches = <<>>
    THEN <<row @@ ("prior_end_date" :> Some(prior_end_date(Val(row["report_end_date"]))))
               @@ NoPriorRow(row)>>
    ELSE [k \in DOMAIN matches |->
             row @@ ("prior_end_date" :> Some(prior_end_date(Val(row["report_end_date"]))))
                 @@ PriorRow(matches[k])] \o <<>>

RECURSIVE LeftMerge(_, _)
LeftMerge(left, df_prior) ==
    IF left = <<>> THEN <<>>
    ELSE MergedRows(Head(left), PriorMatches(Head(left), df_prior))
         \o LeftMerge(Tail(left), df_prior)

\* create_prior_df: the combined table merged with itself
create_prior_df(df) == LeftMerge(df, df)

\* the days a daily batch may exist for: the first day, the day a year later,
\* five days after it, new year's day, the day two years later, the last day
GoldDays ==
    {Datetime(2002, 11, 20), Datetime(2003, 11, 20), Datetime(2003, 11, 25),
     Datetime(2004, 1, 1), Datetime(2004, 11, 20), Datetime(2004, 12, 5)}

\* a folder of daily batches with gaps
GoldFolders ==
    {[kind |-> "folder", files |-> {SilverFile(d, "Utf8") : d \in days}] :
        days \in SUBSET GoldDays \ {{}}}

GoldInit ==
    /\ input \in GoldFolders
    /\ op = "none"
    /\ result = [status |-> "none"]
    /\ normalized = <<>>

\* main() of the gold aggregation on the period batches that were written
GoldMain ==
    /\ op = "create_report_periods_df"
    /\ op' = "gold_main"
    /\ result' = [status |-> "ok", gold_data |-> gold_main(result.written)]
    /\ UNCHANGED <<input, normalized>>

\* combine_parquet_files_incremental on the extracted aggregates
CombineParquetFilesIncremental ==
    /\ op = "gold_main"
    /\ result.gold_data # <<>>
    /\ op' = "combine"
    /\ result' = [status |-> "ok",
                  combined |-> combine_parquet_files_incremental(
                                   extract_zip_files_to_temp(result.gold_data))]
    /\ UNCHANGED <<input, normalized>>

\* create_prior_df on the combined table, exported as the gold table
CreatePriorDf ==
    /\ op = "combine"
    /\ op' = "create_prior_df"
    /\ result' = [status |-> "ok", combined |-> result.combined,
                  gold |-> create_prior_df(result.combined)]
    /\ UNCHANGED <<input, normalized>>

GoldNext ==
    \/ CreateReportPeriodsDf
    \/ GoldMain
    \/ CombineParquetFilesIncremental
    \/ CreatePriorDf

GoldSpec == GoldInit /\ [][GoldNext]_vars

(***************************************************************************)
(* A run of the Combiner, step by step                                     *)
(*                                                                         *)
(* A file is absent, partial (opened for writing, not yet closed) or       *)
(* complete with its table.  A run stops where a step fails; the finally   *)
(* clause removes the temporary directory only.                            *)
(***************************************************************************)
Absent == [state |-> "absent"]
Partial == [state |-> "partial"]
Complete(table) == [state |-> "complete", table |-> table]

\* the rows of the combined frame whose report_type starts with "Prior "
IsPrior(row) == StartsWith(Val(row["report_type"]), "Prior ")

IsNotPrior(row) == ~IsPrior(row)

\* join_keys of merge_prior_and_current
prior_join_keys == {"report_date", "report_type"}

\* a row of df_prior: "Prior " removed from report_type, every column but the
\* join keys renamed with the prefix prior_
BulkPriorRow(row) ==
    [c \in {IF x \in prior_join_keys THEN x ELSE "prior_" \o x : x \in DOMAIN row} |->
        IF c = "report_type" THEN Some(Drop(Val(row[c]), 6))
        ELSE IF c = "report_date" THEN row[c]
        ELSE row[Drop(c, 6)]]

\* the rows of df_prior with the join keys of a current row
RECURSIVE BulkMatches(_, _)
BulkMatches(row, df_prior) ==
    IF df_prior = <<>> THEN <<>>
    ELSE (IF /\ BulkPriorRow(Head(df_prior))["report_date"] = row["report_date"]
             /\ BulkPriorRow(Head(df_prior))["report_type"] = row["report_type"]
          THEN <<BulkPriorRow(Head(df_prior))>> ELSE <<>>)
         \o BulkMatches(row, Tail(df_prior))

BulkMergedRows(row, matches) ==
    IF matches = <<>>
    THEN <<row @@ [c \in {"prior_" \o x : x \in DOMAIN row \ prior_join_keys} |-> Null]>>
    ELSE [k \in DOMAIN matches |-> row @@ matches[k]] \o <<>>

RECURSIVE BulkLeftJoin(_, _)
BulkLeftJoin(df_current, df_prior) ==
    IF df_current = <<>> THEN <<>>
    ELSE BulkMergedRows(Head(df_current), BulkMatches(Head(df_current), df_prior))
         \o BulkLeftJoin(Tail(df_current), df_prior)

\* merge_prior_and_current(df)
merge_prior_and_current(df) ==
    BulkLeftJoin(SelectSeq(df, IsNotPrior), SelectSeq(df, IsPrior))

\* the aggregates of the period batches, of either pipeline
GoldAggregates(pipeline, batches) ==
    IF pipeline = "4_gold_dash_agg"
    THEN [i \in DOMAIN batches |-> process_zip_file(batches[i])] \o <<>>
    ELSE [i \in DOMAIN batches |-> create_aggregated_dataframe(batches[i])] \o <<>>

\* the combined table of a run, before the prior-period join
CombinedTable(pipeline, batches) ==
    IF pipeline = "4_gold_dash_agg"
    THEN combine_parquet_files_incremental(GoldAggregates(pipeline, batches))
    ELSE harmonize_and_concat(GoldAggregates(pipeline, batches))

\* the table of a run with its prior_ mirror columns
NewTable(pipeline, batches) ==
    IF pipeline = "4_gold_dash_agg"
    THEN create_prior_df(CombinedTable(pipeline, batches))
    ELSE merge_prior_and_current(CombinedTable(pipeline, batches))

\* a run of a pipeline on two period batches; the gold file holds nothing or
\* what the run before, which had the first batch only, left in it
CombinerRuns ==
    {[kind |-> "combiner", pipeline |-> pipeline, batches |-> b.batches,
      previous |-> previous] :
        pipeline \in {"4_gold_dash_agg", "src"},
        b \in {x \in PeriodBatches : Len(x.batches[1].rows) = 1},
        previous \in BOOLEAN}

\* the gold file before the run
PreviousFile ==
    IF ~input.previous THEN Absent
    ELSE IF input.pipeline = "4_gold_dash_agg"
    THEN Complete(NewTable(input.pipeline, <<input.batches[1]>>))
    ELSE Complete(CombinedTable(input.pipeline, <<input.batches[1]>>))

CombinerInit ==
    /\ input \in CombinerRuns
    /\ op = "start"
    /\ result = [combined_file |-> IF input.previous
                                   THEN Complete(CombinedTable(input.pipeline,
                                                               <<input.batches[1]>>))
                                   ELSE Absent,
                 output_file |-> PreviousFile,
                 gold_file |-> PreviousFile]
    /\ normalized = <<>>

\* temp_dir = extract_zip_files_to_temp(input_dir)
ExtractZipFilesToTemp ==
    /\ input.pipeline = "4_gold_dash_agg"
    /\ op = "start"
    /\ op' = "extracted"
    /\ normalized' = GoldAggregates(input.pipeline, input.batches)
    /\ UNCHANGED <<input, result>>

\* combine_parquet_files_incremental: os.remove(combined_file_path)
RemoveCombinedFile ==
    /\ op = "extracted"
    /\ op' = "removed"
    /\ result' = [result EXCEPT !.combined_file = Absent]
    /\ UNCHANGED <<input, normalized>>

\* combined_df.to_parquet(combined_file_path) opens the file
BeginWriteCombined ==
    /\ op = "removed"
    /\ op' = "writing_combined"
    /\ result' = [result EXCEPT !.combined_file = Partial]
    /\ UNCHANGED <<input, normalized>>

\* combined_df.to_parquet(combined_file_path) closes the file
FinishWriteCombined ==
    /\ op = "writing_combined"
    /\ op' = "combined"
    /\ result' = [result EXCEPT !.combined_file =
                                    Complete(combine_parquet_files_incremental(normalized))]
    /\ UNCHANGED <<input, normalized>>

\* df = create_prior_df(...); df.to_parquet(output_file_path) opens the file
BeginExport ==
    /\ op = "combined"
    /\ op' = "exporting"
    /\ result' = [result EXCEPT !.output_file = Partial]
    /\ UNCHANGED <<input, normalized>>

\* df.to_parquet(output_file_path) closes the file
FinishExport ==
    /\ op = "exporting"
    /\ op' = "exported"
    /\ result' = [result EXCEPT !.output_file =
                                    Complete(create_prior_df(result.combined_file.table))]
    /\ UNCHANGED <<input, normalized>>

\* shutil.copy(output_file_path, dashboard_file_path) opens the destination
BeginCopy ==
    /\ op = "exported"
    /\ op' = "copying"
    /\ result' = [result EXCEPT !.gold_file = Partial]
    /\ UNCHANGED <<input, normalized>>

\* shutil.copy closes the destination; finally: clean_up_temp_dir
FinishCopy ==
    /\ op = "copying"
    /\ op' = "done"
    /\ result' = [result EXCEPT !.gold_file = result.output_file]
    /\ normalized' = <<>>
    /\ UNCHANGED input

\* aggregate_all_report_dates: the aggregates are written and read back
BulkAggregate ==
    /\ input.pipeline = "src"
    /\ op = "start"
    /\ op' = "aggregated"
    /\ normalized' = GoldAggregates(input.pipeline, input.batches)
    /\ UNCHANGED <<input, result>>

\* combined_df.write_parquet(combined_out_path) opens the gold file
BulkBeginWrite ==
    /\ op = "aggregated"
    /\ op' = "writing"
    /\ result' = [result EXCEPT !.gold_file = Partial]
    /\ UNCHANGED <<input, normalized>>

\* combined_df.write_parquet(combined_out_path) closes the gold file
BulkFinishWrite ==
    /\ op = "writing"
    /\ op' = "written"
    /\ result' = [result EXCEPT !.gold_file = Complete(harmonize_and_concat(normalized))]
    /\ UNCHANGED <<input, normalized>>

\* combined_df = merge_prior_and_current(combined_df) is returned, and main
\* drops it
BulkMerge ==
    /\ op = "written"
    /\ op' = "done"
    /\ normalized' = merge_prior_and_current(result.gold_file.table)
    /\ UNCHANGED <<input, result>>

\* a step raises: the run ends where it is, the temporary directory is removed
StepFails ==
    /\ op \in {"start", "extracted", "removed", "writing_combined", "combined",
               "exporting", "exported", "copying", "aggregated", "writing", "written"}
    /\ op' = "failed"
    /\ normalized' = <<>>
    /\ UNCHANGED <<input, result>>

CombinerNext ==
    \/ ExtractZipFilesToTemp
    \/ RemoveCombinedFile
    \/ BeginWriteCombined
    \/ FinishWriteCombined
    \/ BeginExport
    \/ FinishExport
    \/ BeginCopy
    \/ FinishCopy
    \/ BulkAggregate
    \/ BulkBeginWrite
    \/ BulkFinishWrite
    \/ BulkMerge
    \/ StepFails

CombinerSpec == CombinerInit /\ [][CombinerNext]_vars

(***************************************************************************)
(* The fan-out stages: units, their temporary files and their failures     *)
(*                                                                         *)
(* A unit is an archive and what is wrong with it: nothing, not a zip      *)
(* archive, a member that cannot be extracted, a member that cannot be     *)
(* read, a member without rows, or an output archive that cannot be        *)
(* written.  A file is its path and the unit that created it; the units of *)
(* the gold aggregation run side by side in a process pool, the units of   *)
(* the daily enrichment one after the other.                               *)
(***************************************************************************)
Faults == {"none", "not_zip", "extract", "read", "empty", "save"}

\* a file of a directory: name.ext
Path(dir, name, ext) == [dir |-> dir, name |-> name, ext |-> ext]

\* a member named after the first part of the archive's name only, the same
\* for every period archive
SharedMemberName(zip) == [name |-> <<zip[1]>>, ext |-> "parquet"]

\* zip_parquet_file: the member of a period archive is
\* basename(output_path.replace('.zip', '.parquet'))
MemberName(zip) == [name |-> zip, ext |-> "parquet"]

\* process_zip_file: os.path.join(temp_dir,
\* os.path.basename(zip_file_path).replace('.zip', '.parquet'))
expected_parquet_file_path(temp_dir, zip) == Path(temp_dir, zip, "parquet")

\* zip_ref.extractall(temp_dir): the path the member is extracted to
ExtractedPath(temp_dir, zip) == Path(temp_dir, MemberName(zip).name, MemberName(zip).ext)

\* save_aggregated_df: output_dir/{report_type}_{report_start}_{report_end}
OutputPath(zip, ext) == Path("gold_data", AggregateFileName(zip), ext)

\* a unit touches a file that another unit created
Foreign(fs, path, u, access) ==
    {[unit |-> u, path |-> path, access |-> access] :
        f \in {g \in fs.files : g.path = path /\ g.owner # u}}

Exists(fs, path) == \E f \in fs.files : f.path = path

\* a unit writes a file, replacing the file of the path
WrittenBy(fs, path, u) ==
    [files |-> {f \in fs.files : f.path # path} \cup {[path |-> path, owner |-> u]},
     foreign |-> fs.foreign \cup Foreign(fs, path, u, "overwrite")]

\* a unit reads a file
ReadBy(fs, path, u) ==
    [files |-> fs.files, foreign |-> fs.foreign \cup Foreign(fs, path, u, "read")]

\* a unit removes a file
Removed(fs, path, u) ==
    [files |-> {f \in fs.files : f.path # path},
     foreign |-> fs.foreign \cup Foreign(fs, path, u, "delete")]

\* the period archives of an anchor: R12 and YTD
PoolZips ==
    [i \in DOMAIN CurrentRecords(Datetime(2004, 1, 1)) |->
        PeriodFileName(CurrentRecords(Datetime(2004, 1, 1))[i])] \o <<>>

PoolInputs ==
    {[kind |-> "pool",
      units |-> [i \in DOMAIN PoolZips |-> [zip |-> PoolZips[i], fault |-> fault[i]]] \o <<>>] :
        fault \in [DOMAIN PoolZips -> Faults]}

PoolInit ==
    /\ input \in PoolInputs
    /\ op = "start"
    /\ result = [units |-> <<>>]
    /\ normalized = [files |-> {}, foreign |-> {}]

\* main() of the gold aggregation: executor.submit for every archive
Submit ==
    /\ op = "start"
    /\ op' = "running"
    /\ result' = [units |-> [i \in DOMAIN input.units |-> [pc |-> "submitted", ret |-> "none"]]
                            \o <<>>]
    /\ UNCHANGED <<input, normalized>>

\* process_zip_file: is_zipfile, then extractall; the expected path is not
\* known yet when extractall raises, so the finally clause removes nothing
ExtractAll(u) ==
    /\ op = "running"
    /\ result.units[u].pc = "submitted"
    /\ LET unit == input.units[u]
       IN  IF unit.fault = "not_zip"
           THEN /\ result' = [result EXCEPT !.units[u] = [pc |-> "returned", ret |-> "Skipped"]]
                /\ UNCHANGED normalized
           ELSE /\ normalized' = WrittenBy(normalized, ExtractedPath("temp", unit.zip), u)
                /\ result' = [result EXCEPT !.units[u] =
                                 IF unit.fault = "extract"
                                 THEN [pc |-> "returned", ret |-> "Skipped"]
                                 ELSE [pc |-> "extracted", ret |-> "none"]]
    /\ UNCHANGED <<input, op>>

\* process_zip_file: the expected file is read and aggregated, then removed;
\* a missing file, an unreadable file and an empty frame return None, with
\* the finally clause removing the file when it exists
ReadAndAggregate(u) ==
    /\ op = "running"
    /\ result.units[u].pc = "extracted"
    /\ LET unit == input.units[u]
           path == expected_parquet_file_path("temp", unit.zip)
       IN  IF ~Exists(normalized, path)
           THEN /\ result' = [result EXCEPT !.units[u] = [pc |-> "returned", ret |-> "Skipped"]]
                /\ UNCHANGED normalized
           ELSE /\ normalized' = Removed(ReadBy(normalized, path, u), path, u)
                /\ result' = [result EXCEPT !.units[u] =
                                 IF unit.fault \in {"read", "empty"}
                                 THEN [pc |-> "returned", ret |-> "Skipped"]
                                 ELSE [pc |-> "aggregated", ret |-> "none"]]
    /\ UNCHANGED <<input, op>>

\* save_aggregated_df: df.write_parquet(output_file_path)
WriteParquet(u) ==
    /\ op = "running"
    /\ result.units[u].pc = "aggregated"
    /\ normalized' = WrittenBy(normalized, OutputPath(input.units[u].zip, "parquet"), u)
    /\ result' = [result EXCEPT !.units[u] = [pc |-> "written", ret |-> "none"]]
    /\ UNCHANGED <<input, op>>

\* save_aggregated_df: the archive is written and the parquet file removed;
\* when the archive cannot be written the call raises where it is
ZipAndRemove(u) ==
    /\ op = "running"
    /\ result.units[u].pc = "written"
    /\ IF input.units[u].fault = "save"
       THEN /\ result' = [result EXCEPT !.units[u] = [pc |-> "raised", ret |-> "none"]]
            /\ UNCHANGED normalized
       ELSE /\ normalized' = Removed(WrittenBy(ReadBy(normalized,
                                                    OutputPath(input.units[u].zip, "parquet"), u),
                                             OutputPath(input.units[u].zip, "zip"), u),
                                     OutputPath(input.units[u].zip, "parquet"), u)
            /\ result' = [result EXCEPT !.units[u] = [pc |-> "returned",
                                                      ret |-> "Processed"]]
    /\ UNCHANGED <<input, op>>

\* main(): the results of the futures that returned are collected, a future
\* that raised is passed over; the summary counts the "Processed" and the
\* "Skipped" results, and the temporary directory is removed
Summarize ==
    /\ op = "running"
    /\ \A u \in DOMAIN result.units : result.units[u].pc \in {"returned", "raised"}
    /\ op' = "summary"
    /\ result' = [units |-> result.units,
                  summary |-> [processed |-> {u \in DOMAIN result.units :
                                                 result.units[u].ret = "Processed"},
                               skipped |-> {u \in DOMAIN result.units :
                                               result.units[u].ret = "Skipped"}]]
    /\ normalized' = [normalized EXCEPT !.files = {f \in @ : f.path.dir # "temp"}]
    /\ UNCHANGED input

\* process_single_zip of the daily enrichment on an archive: whether the call
\* raises (zipfile.ZipFile is opened outside the try), whether the silver
\* archive is written, and the intermediate files left when it returns (the
\* finally clause removes the extracted member only)
SingleZipOutcome(unit) ==
    CASE unit.fault = "not_zip" -> [raised |-> TRUE, written |-> FALSE, leftover |-> {}]
      [] unit.fault \in {"extract", "read"} ->
             [raised |-> FALSE, written |-> FALSE, leftover |-> {}]
      [] unit.fault = "save" ->
             [raised |-> FALSE, written |-> FALSE, leftover |-> {"out_parquet"}]
      [] OTHER -> [raised |-> FALSE, written |-> TRUE, leftover |-> {}]

\* create_silver_from_daily_zips: process_single_zip on every archive in the
\* order of the sorted listing; an exception ends the loop; nothing is counted
RECURSIVE create_silver_from_daily_zips(_, _, _)
create_silver_from_daily_zips(units, u, done) ==
    IF u > Len(units) THEN [status |-> "ok", units |-> done]
    ELSE IF SingleZipOutcome(units[u]).raised
    THEN [status |-> "error", units |-> done \o <<SingleZipOutcome(units[u])>>]
    ELSE create_silver_from_daily_zips(units, u + 1, done \o <<SingleZipOutcome(units[u])>>)

\* main() of the daily enrichment on the archives
CreateSilverFromDailyZips ==
    /\ op = "start"
    /\ op' = "daily_done"
    /\ LET run == create_silver_from_daily_zips(input.units, 1, <<>>)
       IN  result' = [units |-> run.units, status |-> run.status,
                      summary |-> [processed |-> {u \in DOMAIN run.units : run.units[u].written},
                                   skipped |-> {}]]
    /\ UNCHANGED <<input, normalized>>

PoolNext ==
    \/ Submit
    \/ \E u \in DOMAIN input.units : ExtractAll(u)
    \/ \E u \in DOMAIN input.units : ReadAndAggregate(u)
    \/ \E u \in DOMAIN input.units : WriteParquet(u)
    \/ \E u \in DOMAIN input.units : ZipAndRemove(u)
    \/ Summarize
    \/ CreateSilverFromDailyZips

PoolSpec == PoolInit /\ [][PoolNext]_vars

(***************************************************************************)
(* The Combiner on aggregates whose columns differ in type                 *)
(*                                                                         *)
(* A typed aggregate is its columns in order and a cell for each column; a *)
(* cell is its dtype, whether it is null, and its value: a number in       *)
(* hundredths, or a text.                                                  *)
(***************************************************************************)
Cell(dtype, num, text) == [dtype |-> dtype, null |-> FALSE, num |-> num, text |-> text]

\* pl.lit(None).cast(dtype)
NullCell(dtype) == [dtype |-> dtype, null |-> TRUE, num |-> 0, text |-> ""]

IntegerTypes == {"UInt32", "Int64"}

NumericTypes == IntegerTypes \cup {"Float64"}

\* a number in hundredths as text: 250 is "2.5", 300 is "3.0"
HundredthsToStr(num) ==
    NatToStr(num \div 100) \o "." \o StripZerosEnd(zfill(NatToStr(num % 100), 2))

\* pl.col(c).cast(target), strict: a float loses its fraction in an integer
\* type, a text that is not a number fails, a number becomes its text
cast(cell, target) ==
    IF cell.null \/ cell.dtype = target THEN [ok |-> TRUE, cell |-> [cell EXCEPT !.dtype = target]]
    ELSE IF target = "Utf8"
    THEN [ok |-> TRUE,
          cell |-> Cell("Utf8", 0, IF cell.dtype = "Float64" THEN HundredthsToStr(cell.num)
                                   ELSE NatToStr(cell.num \div 100))]
    ELSE IF cell.dtype = "Utf8"
    THEN IF IsNull(StrToInt(cell.text)) THEN [ok |-> FALSE, cell |-> cell]
         ELSE [ok |-> TRUE, cell |-> Cell(target, Val(StrToInt(cell.text)) * 100, "")]
    ELSE IF target \in IntegerTypes
    THEN [ok |-> TRUE, cell |-> Cell(target, (cell.num \div 100) * 100, "")]
    ELSE [ok |-> TRUE, cell |-> Cell(target, cell.num, "")]

\* the superset of the columns, in insertion order
RECURSIVE all_cols(_, _)
all_cols(dfs, seen) ==
    IF dfs = <<>> THEN seen
    ELSE all_cols(Tail(dfs),
                  seen \o SelectSeq(Head(dfs).columns,
                                    LAMBDA c : \A i \in DOMAIN seen : seen[i] # c))

\* the target dtype of a column: that of the first frame that contains it
targets(dfs, c) ==
    LET d == dfs[CHOOSE i \in DOMAIN dfs :
                     /\ c \in DOMAIN dfs[i].cells
                     /\ \A j \in DOMAIN dfs : c \in DOMAIN dfs[j].cells => i <= j]
    IN  d.cells[c].dtype

\* a frame with its missing columns added as nulls and its columns cast
CastFrame(d, dfs) ==
    [c \in DOMAIN all_cols(dfs, <<>>) |->
        LET name == all_cols(dfs, <<>>)[c]
        IN  [name |-> name,
             cast |-> IF name \in DOMAIN d.cells THEN cast(d.cells[name], targets(dfs, name))
                      ELSE [ok |-> TRUE, cell |-> NullCell(targets(dfs, name))]]] \o <<>>

\* the casts that fail, frame after frame, column after column
RECURSIVE FailedCasts(_, _)
FailedCasts(rest, dfs) ==
    IF rest = <<>> THEN <<>>
    ELSE SelectSeq(CastFrame(Head(rest), dfs), LAMBDA x : ~x.cast.ok)
         \o FailedCasts(Tail(rest), dfs)

\* _harmonize_and_concat(dfs) with the schemas of the frames
harmonize_schemas(dfs) ==
    IF FailedCasts(dfs, dfs) # <<>>
    THEN [status |-> "error", error |-> "InvalidOperationError",
          column |-> Head(FailedCasts(dfs, dfs)).name]
    ELSE [status |-> "ok",
          columns |-> all_cols(dfs, <<>>),
          rows |-> [i \in DOMAIN dfs |->
                       [c \in {all_cols(dfs, <<>>)[k] : k \in DOMAIN all_cols(dfs, <<>>)} |->
                           LET k == CHOOSE x \in DOMAIN all_cols(dfs, <<>>) :
                                        all_cols(dfs, <<>>)[x] = c
                           IN  CastFrame(dfs[i], dfs)[k].cast.cell]] \o <<>>]

\* the dtypes of a column in the frames that contain it
Dtypes(dfs, c) == {dfs[i].cells[c].dtype : i \in {j \in DOMAIN dfs : c \in DOMAIN dfs[j].cells}}

\* pd.concat: the common dtype of a column; a column that a frame lacks
\* holds NaN there
concat_dtype(dfs, c) ==
    LET dtypes == Dtypes(dfs, c)
        lacking == \E i \in DOMAIN dfs : c \notin DOMAIN dfs[i].cells
    IN  IF "Utf8" \in dtypes THEN (IF dtypes = {"Utf8"} THEN "Utf8" ELSE "object")
        ELSE IF "Float64" \in dtypes \/ lacking THEN "Float64"
        ELSE IF Cardinality(dtypes) = 1 THEN CHOOSE t \in dtypes : TRUE
        ELSE "Int64"

\* combine_parquet_files_incremental with the dtypes of the frames: pd.concat,
\* fillna(0) on the int64 and float64 columns, and to_parquet, which fails on
\* a column of mixed objects
combine_dtypes(dfs) ==
    LET cols == all_cols(dfs, <<>>)
        names == {cols[k] : k \in DOMAIN cols}
        mixed == SelectSeq(cols, LAMBDA c : concat_dtype(dfs, c) = "object")
    IN  IF mixed # <<>>
        THEN [status |-> "error", error |-> "ArrowTypeError", column |-> Head(mixed)]
        ELSE [status |-> "ok",
              columns |-> cols,
              rows |-> [i \in DOMAIN dfs |->
                           [c \in names |->
                               IF c \in DOMAIN dfs[i].cells
                               THEN [dfs[i].cells[c] EXCEPT !.dtype = concat_dtype(dfs, c)]
                               ELSE IF concat_dtype(dfs, c) = "Utf8" THEN NullCell("Utf8")
                               ELSE Cell(concat_dtype(dfs, c), 0, "")]] \o <<>>]

\* the values of max_crime_risk_score in an aggregate: 3 or 7 as an integer,
\* 2.5 or 3.0 as a float, "3" or "n/a" as a text
ScoreCells ==
    {Cell("UInt32", 300, ""), Cell("Int64", 300, ""), Cell("Int64", 700, ""),
     Cell("Float64", 250, ""), Cell("Float64", 300, ""),
     Cell("Utf8", 0, "3"), Cell("Utf8", 0, "n/a")}

\* an aggregate with one pivot column of its own
TypedAggregate(report_type, score, pivot) ==
    [columns |-> <<"report_type", "max_crime_risk_score", pivot>>,
     cells |-> ("report_type" :> Cell("Utf8", 0, report_type))
               @@ ("max_crime_risk_score" :> score)
               @@ (pivot :> Cell("UInt32", 100, ""))]

\* two aggregates in the order they are read
TypedInputs ==
    {[kind |-> "typed", dfs |-> <<TypedAggregate("R12", a, "crime_theft"),
                                  TypedAggregate("YTD", b, "crime_arson")>>] :
        a \in ScoreCells, b \in ScoreCells}

TypedInit ==
    /\ input \in TypedInputs
    /\ op = "none"
    /\ result = [status |-> "none"]
    /\ normalized = <<>>

\* _harmonize_and_concat on the aggregates as they are listed
HarmonizeAndConcat ==
    /\ op = "none"
    /\ op' = "harmonize_and_concat"
    /\ result' = harmonize_schemas(input.dfs)
    /\ UNCHANGED <<input, normalized>>

\* combine_parquet_files_incremental on the aggregates as they are listed
CombineIncremental ==
    /\ op = "none"
    /\ op' = "combine_parquet_files_incremental"
    /\ result' = combine_dtypes(input.dfs)
    /\ UNCHANGED <<input, normalized>>

TypedNext ==
    \/ HarmonizeAndConcat
    \/ CombineIncremental

TypedSpec == TypedInit /\ [][TypedNext]_vars

(***************************************************************************)
(* The month walk, one iteration at a time                                 *)
(*                                                                         *)
(* generate_report_periods and check_if_file_missing walk from min_date to *)
(* max_date with the same loop; result holds the function, the current     *)
(* anchor and the anchors visited so far.                                  *)
(***************************************************************************)
WalkFunctions == {"generate_report_periods", "check_if_file_missing"}

WalkInit ==
    /\ input \in DateRanges
    /\ op = "none"
    /\ result = [status |-> "none"]
    /\ normalized = <<>>

\* current = min_date
WalkStart ==
    /\ op = "none"
    /\ op' = "while"
    /\ \E function \in WalkFunctions :
           result' = [status |-> "ok", function |-> function,
                      current |-> input.min_date, months |-> <<>>]
    /\ UNCHANGED <<input, normalized>>

\* one iteration of while current <= max_date
WalkStep ==
    /\ op = "while"
    /\ ~Before(input.max_date, result.current)
    /\ result' = [result EXCEPT !.months = Append(@, result.current),
                                !.current = NextMonth(result.current)]
    /\ UNCHANGED <<input, op, normalized>>

\* the loop condition fails
WalkExit ==
    /\ op = "while"
    /\ Before(input.max_date, result.current)
    /\ op' = "done"
    /\ UNCHANGED <<input, result, normalized>>

WalkNext ==
    \/ WalkStart
    \/ WalkStep
    \/ WalkExit

\* the function runs to its end once it is called
WalkSpec == WalkInit /\ [][WalkNext]_vars /\ WF_vars(WalkNext)

(***************************************************************************)
(* Properties                                                              *)
(***************************************************************************)
\* the rows add_features returned, of either variant
Enriched ==
    IF op \in {"add_features", "add_features_bulk"} /\ result.status = "ok"
    THEN result.df.rows ELSE <<>>

\* the rows the per-day add_features returned
EnrichedDaily == IF op = "add_features" /\ result.status = "ok" THEN result.df.rows ELSE <<>>

\* the header of a delivered column in the spelling add_features works with
Canonical(header) == SpacesToUnderscore(to_lowercase(header))

\* the cell of the delivered row under the column add_features calls name
RawCell(row, name) == row[CHOOSE k \in DOMAIN row : Canonical(k) = name]

\* the required columns a delivery lacks, in the spelling the variant asks for
Lacking ==
    IF op = "add_features_bulk"
    THEN {c \in SeqToSet(required_orginal) : c \notin input.columns}
    ELSE {c \in SeqToSet(lower_required) : c \notin {to_lowercase(h) : h \in input.columns}}

Ran == op \in {"add_features", "add_features_bulk", "process_single_zip"}

\* C1: in every enriched record crime_risk_score is the number
\* 3*is_violent_combined + 2*is_property_combined + is_drug_related, the flags
\* counted as 0 and 1, and lies in 0..6
C1_RiskScoreFormula ==
    \A i \in DOMAIN Enriched :
        LET r == Enriched[i]
            score == r["crime_risk_score"]
            flags == <<r["is_violent_combined"], r["is_property_combined"],
                       r["is_drug_related"]>>
        IN  /\ ~IsNull(score)
            /\ Val(score) \in 0..6
            /\ \A k \in 1..3 : ~IsNull(flags[k])
            /\ Val(score) = 3 * Val(BoolToInt(flags[1])) + 2 * Val(BoolToInt(flags[2]))
                            + Val(BoolToInt(flags[3]))

CategoryFlags ==
    <<"is_violent_combined", "is_property_combined", "is_drug_related",
      "is_weapon_related", "is_public_order">>

CategoryLabels ==
    <<"Violent Crime", "Property Crime", "Drug Crime", "Weapons Crime",
      "Public Order Crime">>

\* C2: crime_category is the label of the first flag that is true in the order
\* violent_combined, property_combined, drug, weapon, public order, and
\* 'Other' when none is
C2_CategoryByPriority ==
    \A i \in DOMAIN Enriched :
        LET r == Enriched[i]
            hits == {k \in 1..5 : r[CategoryFlags[k]] = Some(TRUE)}
        IN  r["crime_category"] =
                Some(IF hits = {} THEN "Other"
                     ELSE CategoryLabels[CHOOSE k \in hits : \A j \in hits : k <= j])

\* a record with the violent and the property flag both set got the violent label
C2_Witness ==
    \E i \in DOMAIN Enriched :
        /\ Enriched[i]["is_violent_combined"] = Some(TRUE)
        /\ Enriched[i]["is_property_combined"] = Some(TRUE)
        /\ Enriched[i]["crime_category"] = Some("Violent Crime")

Vocabulary ==
    [is_violent |-> violent_types, is_property |-> property_types,
     is_drug_related |-> drug_types, is_public_order |-> public_order_types,
     is_weapon_related |-> weapon_types]

\* C3: a record delivered with a primary-type label of a vocabulary, of one
\* word or of several, has that vocabulary's flag true, and each combined flag
\* is the OR of its text flag and its FBI flag
C3_LabelsSetFlags ==
    \A i \in DOMAIN EnrichedDaily :
        LET r == EnrichedDaily[i]
            label == RawCell(input.rows[i], "primary_type")
        IN  /\ \A f \in DOMAIN Vocabulary :
                  (~IsNull(label) /\ Val(label) \in Vocabulary[f]) => r[f] = Some(TRUE)
            /\ IsTrue(r["is_violent_combined"])
                  <=> (IsTrue(r["is_violent"]) \/ IsTrue(r["is_violent_fbi"]))
            /\ IsTrue(r["is_property_combined"])
                  <=> (IsTrue(r["is_property"]) \/ IsTrue(r["is_property_fbi"]))

\* C4: clean_raw_fields run on its own output changes nothing: the cleaned
\* fields keep their values, no further _raw column appears and each _raw
\* column keeps the value of the first run
C4_CleanIdempotent ==
    \A k \in 2..(Len(normalized) - 1) : normalized[k + 1] = normalized[k]

TimeFields == TemporalNames \cup DayPartNames \cup {"season", "is_holiday"}

\* C5: a record whose timestamp does not parse is enriched without an error,
\* its date is null and so is every field derived from it, part_of_day, season
\* and is_holiday included
C5_NullDateNullFields ==
    /\ (op = "add_features" /\ Lacking = {}) => result.status = "ok"
    /\ \A i \in DOMAIN EnrichedDaily :
          LET r == EnrichedDaily[i]
              stamp == RawCell(input.rows[i], "date")
          IN  (IsNull(stamp) \/ IsNull(StrptimeIso(Val(stamp)))) =>
                  /\ IsNull(r["date"])
                  /\ \A f \in TimeFields : IsNull(r[f])

\* C6: a record delivered with latitude 0 and longitude 0 leaves add_features
\* with both coordinates null, and so with null bins, grid key and distance
C6_SentinelIsNull ==
    \A i \in DOMAIN Enriched :
        LET r == Enriched[i]
            lat == RawCell(input.rows[i], "latitude")
            lon == RawCell(input.rows[i], "longitude")
        IN  (lat = Some(0) /\ lon = Some(0)) =>
                /\ IsNull(r["latitude"]) /\ IsNull(r["longitude"])
                /\ \A f \in BinNames : IsNull(r[f])

\* C7: a record with an out-of-range or missing coordinate is kept, has
\* is_bad_location true and null lat_bin, lon_bin, geo_grid and
\* crime_density_bin
C7_BadLocationNullBins ==
    /\ Len(EnrichedDaily) \in {0, Len(input.rows)}
    /\ \A i \in DOMAIN EnrichedDaily :
          LET r == EnrichedDaily[i]
              lat == RawCell(input.rows[i], "latitude")
              lon == RawCell(input.rows[i], "longitude")
              bad == \/ IsNull(lat) \/ IsNull(lon)
                     \/ Abs(Val(lat)) > LatLimit \/ Abs(Val(lon)) > LonLimit
          IN  bad => /\ r["is_bad_location"] = Some(TRUE)
                     /\ \A f \in {"lat_bin", "lon_bin", "geo_grid", "crime_density_bin"} :
                            IsNull(r[f])

Width == [beat |-> 4, district |-> 3, ward |-> 3, community_area |-> 3]

\* C9: in the frame written for a day, beat, district, ward and community_area
\* are each null or decimal text padded with zeros to 4 characters (beat) or 3
C9_GeoCodesPadded ==
    (op = "process_single_zip" /\ result.status = "written") =>
        \A i \in DOMAIN result.df.rows : \A f \in DOMAIN Width :
            LET c == result.df.rows[i][f]
            IN  IsNull(c) \/ (Len(Val(c)) = Width[f] /\ AllDigits(Val(c)))

Range == [ward |-> 50, community_area |-> 100]

\* C10: ward_out_of_range is true when the ward is missing, unparsable or
\* outside 1..50 and false inside, community_area_out_of_range likewise with
\* 1..100; the flag is never null and the record is kept
C10_RangeFlagsBoolean ==
    /\ Len(EnrichedDaily) \in {0, Len(input.rows)}
    /\ \A i \in DOMAIN EnrichedDaily : \A f \in DOMAIN Range :
          LET r == EnrichedDaily[i]
              code == Bind(StrToInt, r[f])
              inside == ~IsNull(code) /\ Val(code) >= 1 /\ Val(code) <= Range[f]
          IN  r[f \o "_out_of_range"] = Some(~inside)

\* C11: in every enriched record fbi_category is the category the FBI code maps
\* to, or 'Unknown'; crime_severity_level is the level the category maps to, or
\* 0 (code 06 gives 'Theft' and level 0); crime_severity_label is the label of
\* the level, 'Unknown' for 0; the level lies in 0..5
C11_SeverityLookup ==
    \A i \in DOMAIN Enriched :
        LET r == Enriched[i]
            code == r["fbi_code"]
            category == r["fbi_category"]
            level == r["crime_severity_level"]
            label == r["crime_severity_label"]
        IN  /\ category = Some(IF ~IsNull(code) /\ Val(code) \in DOMAIN fbi_map
                                THEN fbi_map[Val(code)] ELSE "Unknown")
            /\ level = Some(IF Val(category) \in DOMAIN severity_map
                             THEN severity_map[Val(category)] ELSE 0)
            /\ Val(level) \in 0..5
            /\ label = Some(severity_labels[Val(level)])
            /\ (Val(level) = 0 => label = Some("Unknown"))
            /\ (code = Some("06") => category = Some("Theft") /\ level = Some(0))

\* a theft record got the category 'Theft', level 0 and the label 'Unknown'
C11_Witness ==
    \E i \in DOMAIN Enriched :
        /\ Enriched[i]["fbi_code"] = Some("06")
        /\ Enriched[i]["fbi_category"] = Some("Theft")
        /\ Enriched[i]["crime_severity_level"] = Some(0)
        /\ Enriched[i]["crime_severity_label"] = Some("Unknown")

\* the periods generate_report_periods of the report data creation returned
Generated ==
    IF op = "generate_report_periods" /\ result.status = "ok" THEN result.periods ELSE <<>>

\* the calendar months from the month of min_date to the month of max_date
MonthsBetween(min_date, max_date) ==
    {ym \in {y * 100 + m : y \in min_date.year..max_date.year, m \in 1..12} :
        /\ report_date_yyyymm(min_date) <= ym
        /\ ym <= report_date_yyyymm(max_date)}

\* C12: every report_date generate_report_periods returns is the last day of a
\* calendar month, and the anchors are one per calendar month from min_date to
\* max_date inclusive
C12_MonthEndAnchors ==
    LET anchors == {Generated[i].report_date : i \in DOMAIN Generated}
    IN  /\ \A a \in anchors : a.day = DaysInMonth(a.year, a.month)
        /\ (op = "generate_report_periods" /\ result.status = "ok") =>
              /\ {report_date_yyyymm(a) : a \in anchors}
                     = MonthsBetween(input.min_date, input.max_date)
              /\ \A a, b \in anchors :
                     report_date_yyyymm(a) = report_date_yyyymm(b) => a = b

\* the periods a generator of any of the three modules returned
GeneratedAny ==
    IF /\ op \in {"generate_report_periods", "generate_report_periods_bulk",
                  "generate_report_periods_tracker"}
       /\ result.status = "ok"
    THEN result.periods ELSE <<>>

\* the window the type and the anchor determine, as ordinals of its two ends
Window(report_type, anchor) ==
    CASE report_type = "R12" -> <<Ordinal(anchor) - 365, Ordinal(anchor)>>
      [] report_type = "YTD" -> <<ToOrdinal(anchor.year, 1, 1), Ordinal(anchor)>>
      [] report_type = "Prior R12" ->
             <<Ordinal(anchor) - 365 - 1 - 365, Ordinal(anchor) - 365 - 1>>
      [] report_type = "Prior YTD" ->
             <<ToOrdinal(anchor.year - 1, 1, 1),
               ToOrdinal(anchor.year - 1, anchor.month,
                         DaysInMonth(anchor.year - 1, anchor.month))>>

\* C13: the window of a period is determined by its type and its anchor: R12
\* runs from anchor - 365 days to the anchor, YTD from January 1 of the
\* anchor's year to the anchor, Prior R12 is the window of 365 days that ends
\* the day before the R12 start, Prior YTD runs from January 1 of the prior
\* year to the end of the anchor's month in the prior year
C13_WindowsByTypeAndAnchor ==
    \A i \in DOMAIN GeneratedAny :
        LET p == GeneratedAny[i]
        IN  /\ p.report_type \in {"R12", "YTD", "Prior R12", "Prior YTD"}
            /\ <<Ordinal(p.start_date), Ordinal(p.end_date)>>
                   = Window(p.report_type, p.report_date)

\* the anchor 2025-06-30 got YTD 2025-01-01..2025-06-30, Prior YTD
\* 2024-01-01..2024-06-30 and an R12 window that starts on 2024-06-30
C13_Witness ==
    /\ \E i \in DOMAIN GeneratedAny :
           GeneratedAny[i] = Period("YTD", Datetime(2025, 6, 30), Datetime(2025, 1, 1),
                                    Datetime(2025, 6, 30))
    /\ \E i \in DOMAIN GeneratedAny :
           GeneratedAny[i] = Period("Prior YTD", Datetime(2025, 6, 30),
                                    Datetime(2024, 1, 1), Datetime(2024, 6, 30))
    /\ \E i \in DOMAIN GeneratedAny :
           GeneratedAny[i] = Period("R12", Datetime(2025, 6, 30), Datetime(2024, 6, 30),
                                    Datetime(2025, 6, 30))

\* C14: for every anchor and both types the prior period ends one day before
\* the start of the current period and spans as many days as the current period
C14_PriorAdjacentSameLength ==
    \A i, j \in DOMAIN GeneratedAny :
        LET current == GeneratedAny[i]
            prior == GeneratedAny[j]
        IN  (/\ current.report_type \in {"R12", "YTD"}
             /\ prior.report_type = "Prior " \o current.report_type
             /\ prior.report_date = current.report_date)
            => /\ Ordinal(prior.end_date) = Ordinal(current.start_date) - 1
               /\ Ordinal(prior.end_date) - Ordinal(prior.start_date)
                      = Ordinal(current.end_date) - Ordinal(current.start_date)

\* the anchors of the walk: min_date, then the first day of each later month
Anchors(min_date, max_date) ==
    {min_date} \cup {Datetime(ym \div 100, ym % 100, 1) :
                        ym \in MonthsBetween(min_date, max_date) \ {report_date_yyyymm(min_date)}}

\* records in the order of their anchors, R12 before YTD for one anchor
Paired(periods) ==
    \A i, j \in DOMAIN periods :
        i < j => \/ Before(periods[i].report_date, periods[j].report_date)
                 \/ /\ periods[i].report_date = periods[j].report_date
                    /\ periods[i].report_type = "R12"
                    /\ periods[j].report_type = "YTD"

\* a second call with the same arguments returns what the first returned
SameAgain ==
    (op = "generate_report_periods" /\ op' = "generate_report_periods") => result' = result

C16_NoStartBeforeMinimum ==
    \A i \in DOMAIN GeneratedAny :
        Ordinal(GeneratedAny[i].start_date) >= ToOrdinal(2001, 1, 1)

\* the period files a run of the Materializer wrote, of either pipeline
Written ==
    IF op \in {"create_report_periods_df", "create_silver_df"} THEN result.written ELSE <<>>

\* the records of the batches the Materializer was given
Available ==
    IF input.kind = "folder" THEN UNION {SeqToSet(f.rows) : f \in input.files}
    ELSE IF input.kind = "silver_df" THEN SeqToSet(input.rows)
    ELSE {}

\* C17: the batch written for a period holds exactly the records of the
\* available batches whose event day lies in [start_date, end_date], both ends
\* included, whatever the time of day, each once
C17_BatchHoldsWindow ==
    \A i \in DOMAIN Written :
        LET rows == Written[i].df.rows
            period == Written[i].period
        IN  /\ SeqToSet(rows)
                   = {r \in Available : InRange(r.date, period.start_date, period.end_date)}
            /\ Cardinality(SeqToSet(rows)) = Len(rows)

\* C18: whichever daily files the folder holds, create_report_periods_df does
\* not fail and writes the batch of every period of the period table, in turn
C18_EveryPeriodPersisted ==
    (/\ op = "create_report_periods_df"
     /\ create_report_periods_table(input.files).status = "ok")
    => LET periods == create_report_periods_table(input.files).periods
       IN  /\ result.status = "ok"
           /\ Len(result.written) = Len(periods)
           /\ \A i \in DOMAIN periods : result.written[i].period = periods[i]

\* the aggregate rows of the period batches, of either pipeline
Aggregated ==
    IF op \in {"combine_parquet_files_incremental", "aggregate_all_report_dates"}
    THEN result.aggregates ELSE <<>>

DimensionPrefix == [primary_type |-> "crime_", fbi_code |-> "fbi_"]

\* the pivot columns of a dimension in an aggregate row
PivotColumns(row, dimension) ==
    {c \in DOMAIN row : StartsWith(c, DimensionPrefix[dimension])}

RECURSIVE SumOf(_, _)
SumOf(row, columns) ==
    IF columns = {} THEN 0
    ELSE LET c == CHOOSE x \in columns : TRUE
         IN  Val(row[c]) + SumOf(row, columns \ {c})

\* C19: in every aggregate row, for each pivot dimension without a null
\* category in the period batch, the pivot columns of the dimension add up to
\* total_cases, and both count the distinct incident ids of the batch
C19_PivotSumsToTotal ==
    \A i \in DOMAIN Aggregated :
        LET rows == input.batches[i].rows
            distinct == Cardinality({rows[k].id : k \in DOMAIN rows})
        IN  \A dimension \in DOMAIN DimensionPrefix :
                (\A k \in DOMAIN rows : ~IsNull(rows[k][dimension]))
                => /\ SumOf(Aggregated[i], PivotColumns(Aggregated[i], dimension))
                          = Val(Aggregated[i]["total_cases"])
                   /\ Val(Aggregated[i]["total_cases"]) = distinct

\* the combined table of the aggregates, of either pipeline
Combined ==
    IF op \in {"combine_parquet_files_incremental", "aggregate_all_report_dates"}
    THEN result.combined ELSE <<>>

\* C20: every pivot column of an aggregate is a column of the combined table,
\* and the row of a period holds 0, not null, in a pivot column whose category
\* did not occur in the period
C20_UnionColumnsZeroFilled ==
    \A i \in DOMAIN Combined :
        \A j \in DOMAIN Aggregated :
            \A dimension \in DOMAIN DimensionPrefix :
                \A c \in PivotColumns(Aggregated[j], dimension) :
                    /\ c \in DOMAIN Combined[i]
                    /\ ~IsNull(Combined[i][c])
                    /\ c \notin DOMAIN Aggregated[i] => Combined[i][c] = Some(0)

NumericColumns == [avg_crime_risk_score |-> "crime_risk_score",
                   max_crime_risk_score |-> "crime_risk_score"]

\* a period batch whose source column holds no value
EntirelyNull(i, col) ==
    \A k \in DOMAIN input.batches[i].rows : IsNull(input.batches[i].rows[k][col])

\* C21: when a numeric source column is entirely null within a period, its
\* aggregates are null in the period's row of the aggregate and of the
\* combined gold table, not 0
C21_NullAggregateStaysNull ==
    \A i \in DOMAIN Aggregated :
        \A c \in DOMAIN NumericColumns :
            EntirelyNull(i, NumericColumns[c])
            => /\ IsNull(Aggregated[i][c])
               /\ IsNull(Combined[i][c])

\* the combined table and the gold table of the dashboard aggregation
CurrentRows == IF op = "create_prior_df" THEN result.combined ELSE <<>>

GoldTable == IF op = "create_prior_df" THEN result.gold ELSE <<>>

\* the columns of a gold row that mirror the prior period
PriorColumns(row) == {c \in DOMAIN row : StartsWith(c, "prior_") /\ c # "prior_end_date"}

\* C22: the prior-period join gives exactly one row for each current-period
\* row, in the order of the current rows: the row carries the columns of the
\* current row, and every prior_ column of it is null when no row of the
\* period a year before exists
C22_OneRowPerCurrentRow ==
    /\ Len(GoldTable) = Len(CurrentRows)
    /\ \A i \in DOMAIN CurrentRows :
           /\ i \in DOMAIN GoldTable
           /\ \A c \in DOMAIN CurrentRows[i] : GoldTable[i][c] = CurrentRows[i][c]
           /\ PriorMatches(CurrentRows[i], CurrentRows) = <<>>
              => \A c \in PriorColumns(GoldTable[i]) : IsNull(GoldTable[i][c])

\* C23: the gold table holds at most one row for a pair of report_type and
\* report_date, whichever daily batches are available
C23_OneRowPerTypeAndDate ==
    \A i, j \in DOMAIN GoldTable :
        (/\ GoldTable[i]["report_type"] = GoldTable[j]["report_type"]
         /\ GoldTable[i]["report_date"] = GoldTable[j]["report_date"])
        => i = j

\* C24: at every step of a run of the Combiner, and where a run has failed,
\* the gold file is the complete table of the run before or the complete new
\* table with its prior_ mirror columns
C24_GoldFilePreviousOrNew ==
    result.gold_file \in {PreviousFile, Complete(NewTable(input.pipeline, input.batches))}

\* the faults that make a unit fail
Failing == {"not_zip", "extract", "read", "save"}

\* every unit of the stage has completed, or the stage has ended
StageOver == op \in {"summary", "daily_done"}

\* C25: once a fan-out stage is over, every unit that did not fail has been
\* processed and every unit that failed is counted as skipped
C25_FailedUnitSkippedOthersProcessed ==
    StageOver =>
        \A u \in DOMAIN input.units :
            /\ input.units[u].fault = "none" => u \in result.summary.processed
            /\ input.units[u].fault \in Failing => u \in result.summary.skipped

\* the units of the pool that have not returned
RunningUnits ==
    IF op = "running"
    THEN {u \in DOMAIN result.units : result.units[u].pc \notin {"returned", "raised"}}
    ELSE {}

\* the temporary files of a unit
TempFiles(u) == {f \in normalized.files : f.owner = u /\ f.path.dir = "temp"}

C29_IntermediateFilesDeleted ==
    IF op = "daily_done"
    THEN \A u \in DOMAIN result.units : result.units[u].leftover = {}
    ELSE \A u \in DOMAIN result.units :
             result.units[u].pc \in {"returned", "raised"}
             => ~\E f \in normalized.files : f.owner = u /\ f.path.ext = "parquet"

\* the wider of two numeric dtypes
Widest(a, b) ==
    IF "Float64" \in {a, b} THEN "Float64"
    ELSE IF "Int64" \in {a, b} THEN "Int64"
    ELSE "UInt32"

\* the cell of max_crime_risk_score in an aggregate that was read
ScoreRead(i) == input.dfs[i].cells["max_crime_risk_score"]

\* C26: when max_crime_risk_score has different numeric dtypes in the two
\* aggregates, the combined column has the wider dtype and holds the values
\* unchanged; when one of them is a text and the other a number, the combine
\* step stops with an error that names the column
C26_WidestTypeOrError ==
    op # "none" =>
        /\ ({ScoreRead(1).dtype, ScoreRead(2).dtype} \subseteq NumericTypes
            /\ ScoreRead(1).dtype # ScoreRead(2).dtype)
           => /\ result.status = "ok"
              /\ \A i \in DOMAIN input.dfs :
                     /\ result.rows[i]["max_crime_risk_score"].dtype
                            = Widest(ScoreRead(1).dtype, ScoreRead(2).dtype)
                     /\ result.rows[i]["max_crime_risk_score"].num = ScoreRead(i).num
        /\ (\E i, j \in DOMAIN input.dfs :
                ScoreRead(i).dtype = "Utf8" /\ ScoreRead(j).dtype \in NumericTypes)
           => /\ result.status = "error"
              /\ result.column = "max_crime_risk_score"

\* the table an operation gives
TableOf(operation, dfs) ==
    IF operation = "harmonize_and_concat" THEN harmonize_schemas(dfs) ELSE combine_dtypes(dfs)

\* a table without the order of its rows and of its columns
Unordered(table) ==
    IF table.status = "error" THEN table
    ELSE [status |-> "ok",
          columns |-> {table.columns[k] : k \in DOMAIN table.columns},
          rows |-> {table.rows[i] : i \in DOMAIN table.rows}]

\* C27: the combined table (its rows, its columns, every cell value and
\* every column dtype) is the same when the aggregates are read in the
\* other order
C27_SameTableInEveryOrder ==
    op # "none" =>
        Unordered(result)
            = Unordered(TableOf(op, <<input.dfs[2], input.dfs[1]>>))

\* the anchors the walk has visited follow the calendar
AnchorsInOrder ==
    op \in {"while", "done"} =>
        /\ result.months # <<>> => result.months[1] = input.min_date
        /\ \A i \in DOMAIN result.months :
               /\ ~Before(input.max_date, result.months[i])
               /\ i > 1 =>
                     /\ result.months[i].day = 1
                     /\ report_date_yyyymm(result.months[i])
                            = IF result.months[i - 1].month = 12
                              THEN (result.months[i - 1].year + 1) * 100 + 1
                              ELSE report_date_yyyymm(result.months[i - 1]) + 1

\* an iteration moves the current anchor forward
AnchorIncreases ==
    (op = "while" /\ op' = "while") => Before(result.current, result'.current)

\* C30: for min_date <= max_date the month walk terminates: every iteration
\* strictly increases the current anchor, the first anchor is min_date, every
\* later anchor is the first day of the next calendar month, and no anchor
\* exceeds max_date
C30_MonthWalkTerminates ==
    /\ [](~Before(input.max_date, input.min_date) => AnchorsInOrder)
    /\ [][~Before(input.max_date, input.min_date) => AnchorIncreases]_vars
    /\ (~Before(input.max_date, input.min_date) ~> op = "done")

\* a walk over several months has ended
C30_Witness ==
    /\ op = "done"
    /\ ~Before(input.max_date, input.min_date)
    /\ Len(result.months) >= 3
    /\ result.months[1].day # 1

============================================================================
